---- MODULE Spec2Model ----
(***************************************************************************)
(* wslog producer (client/src/WSLogClient.ts): the trace context engine,   *)
(* the producer-side filter and the link transport with its queue and      *)
(* reconnect timer.                                                        *)
(*                                                                         *)
(* Objects that the code shares by reference are kept in a heap: a         *)
(* functionStack array is an entry of `stacks`, named by the contexts that *)
(* hold it.  An optional object (T | null) is <<>> or <<object>>.          *)
(* Wall-clock values (timestamp, startTime, executionTime) are left out of *)
(* events and frames; generateId() is a counter.                           *)
(***************************************************************************)
EXTENDS Integers, Sequences, FiniteSets, TLC

VARIABLES
    config,             \* this.config (the fields the model reads)
    asyncLocal,         \* TRUE: createContext() gave a task-local variable, FALSE: FallbackContextVariable
    isInteractiveMode,  \* this.isInteractiveMode
    persistentContext,  \* this.persistentContext
    currentContext,     \* this.currentContext
    threadIdCounter,    \* this.threadIdCounter
    scopeCtx,           \* the newCtx object of each running runInContext scope
    phase,              \* each scope's callback: "idle", "sync" (on the call stack), "async" (after its first await), "done"
    callStack,          \* the scopes whose callback is in its synchronous part, innermost last
    contextStack,       \* FallbackContextVariable.contextStack (scopes whose newCtx is pushed)
    stacks,             \* heap of functionStack arrays
    ws,                 \* this.ws: 0 is null, else a socket
    sockets,            \* readyState of each socket object: -1 no such object, 0 CONNECTING, 1 OPEN, 2 CLOSING
    reconnectAttempts,  \* this.reconnectAttempts
    reconnectTimer,     \* this.reconnectTimer: 0 is null, else a timer handle
    timers,             \* the pending timeouts: handle -> delay in ms (0: not pending)
    messageQueue,       \* this.messageQueue
    flushing,           \* flushMessageQueue's loop is running
    wire,               \* the frames handed to ws.send that did not throw and not yet taken off the link, in order
    fileLog,            \* the lines appended to the log file
    signals,            \* the events the last handler emitted on the client (EventEmitter)
    nextId,             \* generateId(): the next frame id
    run,                \* history: the current sequence of trace calls made on one context
    solo,               \* history: per scope, the nesting levels its own calls alone account for
    lastTrace,          \* history: the last direct call of trace(): its message, the filters it met
    scheduled,          \* history: the delays of the reconnects scheduled since the last open
    gaveUp,             \* history: maxRetriesReached was emitted and connect() was not called by the user since
    closed,             \* history: close() was called and connect() was not called by the user since
    serverRoutes,       \* broker: this.config.routes
    clients,            \* broker: the keys of this.clients, in insertion order (the links of the active set)
    conn,               \* broker: per link, its socket's readyState and its ClientConnection (info, route)
    totalMessages,      \* broker: this.stats.totalMessages
    calls,              \* the calls of exec in progress, innermost last: the callable each was made through
    returned,           \* the outcome of the last call of exec that completed: callable, value returned or error thrown
    entered,            \* history: per scope, who called runInContext, the context the caller resolved, the partial given
    effects,            \* broker: what the last handler did, in order: records persisted, frames handed to ws.send
    inbound             \* history: the last frame the broker handled: its link, the route and route configuration it chose

vars == <<config, asyncLocal, isInteractiveMode, persistentContext, currentContext,
          threadIdCounter, scopeCtx, phase, callStack, contextStack, stacks, ws,
          sockets, reconnectAttempts, reconnectTimer, timers, messageQueue, flushing,
          wire, fileLog, signals, nextId, run, solo, lastTrace, scheduled, gaveUp, closed,
          calls, returned, entered, serverRoutes, clients, conn, totalMessages, effects, inbound>>

traceVars == <<isInteractiveMode, persistentContext, currentContext, threadIdCounter,
               scopeCtx, phase, callStack, contextStack, stacks>>

linkVars == <<ws, sockets, reconnectAttempts, reconnectTimer, timers, flushing, signals,
              scheduled, gaveUp, closed>>

execVars == <<calls, returned, entered>>

brokerVars == <<serverRoutes, clients, conn, totalMessages, effects, inbound>>

(***************************************************************************)
(* Bounds of the model.                                                    *)
(***************************************************************************)
MaxDepth == 2       \* traceEntry is not called on a context already this deep
MaxLines == 6       \* lines appended to the log file in one behaviour
MaxFrames == 4      \* frames offered to sendMessage in one behaviour
MaxThreadId == 2    \* contexts created in one behaviour
MaxInFlight == 1    \* frames on the link while the trace engine is exercised
MaxSockets == 2     \* socket objects alive at once
MaxTimers == 2      \* timer handles
MaxBrokerFrames == 3   \* frames the broker parses in one behaviour
MaxEvents == 2      \* frames with an id offered while the link of a serverless producer is exercised
MaxControl == 1     \* subscribe and unsubscribe frames offered while the queue is exercised

Scopes == {1, 2}                \* the runInContext scopes that can be alive at once
Actors == {0} \cup Scopes       \* 0 is code outside every runInContext scope
StackIds == 1..(Cardinality(Scopes) + 2)
SockIds == 1..MaxSockets
TimerIds == 1..MaxTimers
Names == {"a", "b"}
Words == {"important", "message", "skip"}
UserMessages == {<<"hi">>, <<"important", "message">>, <<"skip", "message">>}

None == <<>>
Some(x) == <<x>>
Last(s) == s[Len(s)]
Front(s) == SubSeq(s, 1, Len(s) - 1)
Max(x, y) == IF x >= y THEN x ELSE y
Min(x, y) == IF x <= y THEN x ELSE y

RECURSIVE Pow2(_)
Pow2(k) == IF k = 0 THEN 1 ELSE 2 * Pow2(k - 1)

RECURSIVE Repeat(_, _)
Repeat(tok, n) == IF n <= 0 THEN <<>> ELSE <<tok>> \o Repeat(tok, n - 1)

(***************************************************************************)
(* Producer-side filter.  A pattern is a word w standing for the regular   *)
(* expression .*w.* ; a message is a sequence of words; RegExp.test is     *)
(* containment.                                                            *)
(***************************************************************************)
RegexTest(p, message) == \E i \in 1..Len(message) : message[i] = p

shouldTraceMessageExcludeWins(message, ctx) ==
    IF config.maxTraceLevel = 0 THEN FALSE
    ELSE IF config.maxTraceLevel # -1 /\ ctx.nestingLevel > config.maxTraceLevel THEN FALSE
    ELSE /\ ctx.filters.regexInclude # {} => \E p \in ctx.filters.regexInclude : RegexTest(p, message)
         /\ ~ \E p \in ctx.filters.regexExclude : RegexTest(p, message)

shouldTraceMessage(message, ctx) ==
    IF config.maxTraceLevel = 0 THEN FALSE
    ELSE IF config.maxTraceLevel # -1 /\ ctx.nestingLevel > config.maxTraceLevel THEN FALSE
    ELSE IF ctx.filters.regexInclude # {}
         THEN \E p \in ctx.filters.regexInclude : RegexTest(p, message)
         ELSE ~ \E p \in ctx.filters.regexExclude : RegexTest(p, message)

(***************************************************************************)
(* Local sinks.                                                            *)
(***************************************************************************)
formatLogMessage(message, nestingLevel) ==
    LET prefix == IF nestingLevel > 0 THEN Repeat("|", nestingLevel) ELSE <<>>
        isTraceMessage == Len(message) > 0 /\ message[1] \in {">>>", "<<<"}
    IN  prefix \o (IF nestingLevel > 0 /\ ~isTraceMessage THEN <<" ">> \o message ELSE message)

(***************************************************************************)
(* sendMessage: the sinks first, then the link or the queue.  `throws` is  *)
(* whether ws.send (or JSON.stringify) throws on this call.  The result is *)
(* the new value of the three variables it writes.                         *)
(***************************************************************************)
getWebSocketState == IF ws = 0 THEN 3 ELSE sockets[ws]

sendMessageQueuesAlways(out, message, throws) ==
    LET line == formatLogMessage(message.data.message, message.data.nestingLevel)
        logged == IF message.type \in {"log", "trace"} /\ config.logToFile
                  THEN Append(out.fileLog, line) ELSE out.fileLog
    IN  IF ~config.serverless /\ ws # 0 /\ getWebSocketState = 1 /\ ~throws
        THEN [wire |-> Append(out.wire, message), messageQueue |-> out.messageQueue, fileLog |-> logged]
        ELSE [wire |-> out.wire, messageQueue |-> Append(out.messageQueue, message), fileLog |-> logged]

sendMessageFrom(out, message, throws) ==
    LET line == formatLogMessage(message.data.message, message.data.nestingLevel)
        logged == IF message.type \in {"log", "trace"} /\ config.logToFile
                  THEN Append(out.fileLog, line) ELSE out.fileLog
    IN  IF ~config.serverless /\ ws # 0 /\ getWebSocketState = 1
        THEN IF throws
             THEN [wire |-> out.wire, messageQueue |-> Append(out.messageQueue, message), fileLog |-> logged]
             ELSE [wire |-> Append(out.wire, message), messageQueue |-> out.messageQueue, fileLog |-> logged]
        ELSE IF ~config.serverless
        THEN [wire |-> out.wire, messageQueue |-> Append(out.messageQueue, message), fileLog |-> logged]
        ELSE [wire |-> out.wire, messageQueue |-> out.messageQueue, fileLog |-> logged]

Out == [wire |-> wire, messageQueue |-> messageQueue, fileLog |-> fileLog]

\* the frames of `msgs` handed to sendMessage one after the other
RECURSIVE sendAll(_, _, _)
sendAll(out, msgs, throws) ==
    IF msgs = <<>> THEN out
    ELSE sendAll(sendMessageFrom(out, Head(msgs), throws), Tail(msgs), throws)

Offered == nextId - 1

SetOut(out, n) ==
    /\ wire' = out.wire
    /\ messageQueue' = out.messageQueue
    /\ fileLog' = out.fileLog
    /\ nextId' = nextId + n

(***************************************************************************)
(* Context resolution.                                                     *)
(***************************************************************************)
CanAct(a) ==
    /\ ~flushing
    /\ IF callStack # <<>> THEN a = Last(callStack)
       ELSE IF a = 0 THEN TRUE ELSE phase[a] = "async"

contextGetNoStore(a) == 0

\* this.context.get() as seen by the code of actor a: 0 is undefined, else the scope whose newCtx it is
contextGet(a) ==
    IF asyncLocal THEN a
    ELSE IF contextStack = <<>> THEN 0 ELSE Last(contextStack)

StackRefs(per, cur, sc) ==
    {c[1].functionStack : c \in {x \in ({per, cur} \cup {sc[s] : s \in Scopes}) : x # None}}

FreeStack ==
    LET used == StackRefs(persistentContext, currentContext, scopeCtx)
    IN  CHOOSE i \in StackIds \ used : \A j \in StackIds \ used : i <= j

freshContext ==
    [threadId |-> threadIdCounter,
     nestingLevel |-> 0,
     functionStack |-> FreeStack,
     source |-> config.source,
     filters |-> [regexInclude |-> config.regexInclude, regexExclude |-> config.regexExclude]]

\* where: -1 the persistent context, 0 the current context, s > 0 the context of scope s
getOrCreateContext(a) ==
    IF isInteractiveMode
    THEN IF persistentContext = None
         THEN [where |-> -1, ctx |-> freshContext, created |-> TRUE]
         ELSE [where |-> -1, ctx |-> persistentContext[1], created |-> FALSE]
    ELSE IF contextGet(a) # 0
    THEN [where |-> contextGet(a), ctx |-> scopeCtx[contextGet(a)][1], created |-> FALSE]
    ELSE IF currentContext # None
    THEN [where |-> 0, ctx |-> currentContext[1], created |-> FALSE]
    ELSE [where |-> 0, ctx |-> freshContext, created |-> TRUE]

CanResolve(a) == getOrCreateContext(a).created => threadIdCounter <= MaxThreadId

\* the context objects and the arrays after the resolved context became ctx and its array became stk
SetContext(r, ctx, stk) ==
    LET per == IF r.where = -1 THEN Some(ctx) ELSE persistentContext
        cur == IF r.where = 0 THEN Some(ctx) ELSE currentContext
        sc == IF r.where > 0 THEN [scopeCtx EXCEPT ![r.where] = Some(ctx)] ELSE scopeCtx
        refs == StackRefs(per, cur, sc)
    IN  /\ persistentContext' = per
        /\ currentContext' = cur
        /\ scopeCtx' = sc
        /\ stacks' = [i \in StackIds |->
                        IF i \notin refs THEN <<>>
                        ELSE IF i = ctx.functionStack THEN stk ELSE stacks[i]]
        /\ threadIdCounter' = IF r.created THEN threadIdCounter + 1 ELSE threadIdCounter

StackOf(r) == IF r.created THEN <<>> ELSE stacks[r.ctx.functionStack]

(***************************************************************************)
(* trace(): the frames it hands to sendMessage (none or one).              *)
(***************************************************************************)
traceFrames(type, functionName, message, ctx, id) ==
    IF ~config.enableTracing THEN <<>>
    ELSE IF ~shouldTraceMessage(message, ctx) THEN <<>>
    ELSE << [type |-> "trace", id |-> id, route |-> "/trace",
             data |-> [type |-> type, level |-> "debug", message |-> message,
                       functionName |-> functionName, threadId |-> ctx.threadId,
                       nestingLevel |-> ctx.nestingLevel]] >>

logFrame(level, message, ctx, stk, id) ==
    LET logNestingLevel == IF Len(stk) > 0 THEN ctx.nestingLevel + 1 ELSE ctx.nestingLevel
    IN  [type |-> "log", id |-> id, route |-> "/logs",
         data |-> [level |-> level, message |-> message, threadId |-> ctx.threadId,
                   nestingLevel |-> logNestingLevel]]

(***************************************************************************)
(* History of the calls in progress: `run` describes the current sequence  *)
(* of traceEntry / traceExit / log calls made one after the other on one   *)
(* context: the context, its nestingLevel and the length of its            *)
(* functionStack before the first call, the caller's unmatched traceEntry  *)
(* calls (with the depth their entry event was emitted at, -1 if none      *)
(* was), and whether the calls so far were properly nested and paired.     *)
(***************************************************************************)
NoRun == [where |-> -2, nl0 |-> 0, len0 |-> 0, opened |-> <<>>, ok |-> FALSE]

EmittedDepth(frames) == IF frames = <<>> THEN -1 ELSE frames[1].data.nestingLevel

RunAfterEntry(r, name, frames) ==
    LET call == [name |-> name, d |-> EmittedDepth(frames)]
    IN  IF run.where = r.where /\ ~r.created /\ run.ok
        THEN [run EXCEPT !.opened = Append(@, call)]
        ELSE [where |-> r.where, nl0 |-> r.ctx.nestingLevel, len0 |-> Len(StackOf(r)),
              opened |-> <<call>>, ok |-> TRUE]

RunAfterExit(r, name) ==
    IF run.where = r.where /\ ~r.created
    THEN IF run.opened # <<>> /\ Last(run.opened).name = name
         THEN [run EXCEPT !.opened = Front(@)]
         ELSE [run EXCEPT !.ok = FALSE]
    ELSE [where |-> r.where, nl0 |-> r.ctx.nestingLevel, len0 |-> Len(StackOf(r)),
          opened |-> <<>>, ok |-> FALSE]

RunAfterLog(r) == IF run.where = r.where /\ ~r.created THEN run ELSE NoRun

(***************************************************************************)
(* The trace operations.  Each is one call, run to completion.             *)
(***************************************************************************)
entryLevel(nestingLevel) == nestingLevel + 1

exitLevelStuck(nestingLevel) == nestingLevel

exitLevelUnsaturated(nestingLevel) == nestingLevel - 1

exitLevel(nestingLevel) == Max(0, nestingLevel - 1)

(***************************************************************************)
(* History of each scope run on its own: `base` is the nestingLevel its    *)
(* context started with, `own` the nestingLevel of its context and `cur`   *)
(* that of the current context if only this scope's calls had been made    *)
(* since it started, `last` the depth its latest event then carries.       *)
(***************************************************************************)
NoSolo == [base |-> 0, own |-> 0, cur |-> 0, last |-> -1]

SoloAfter(a, r, isEntry, frames) ==
    IF a = 0 \/ r.where = -1 THEN solo
    ELSE LET before == IF r.where = 0 THEN solo[a].cur ELSE solo[a].own
             after == IF isEntry THEN entryLevel(before) ELSE exitLevel(before)
             depth == IF isEntry THEN after ELSE before
         IN  [solo EXCEPT ![a] = [base |-> @.base,
                                  own |-> IF r.where = 0 THEN @.own ELSE after,
                                  cur |-> IF r.where = 0 THEN after ELSE @.cur,
                                  last |-> IF frames = <<>> THEN @.last ELSE depth]]

pushFrame(stk, functionName, level) == Append(stk, [functionName |-> functionName, level |-> level])

\* a variant that unwinds the whole stack
popFrameAll(stk) == <<>>

popFrame(stk) == IF stk = <<>> THEN <<>> ELSE Front(stk)

\* the argument lists handed to traceEntry and exec
ArgLists == {<<>>, <<"x">>}

\* stringify(value) of an array: JSON.stringify(deepCopy(value)), one word of the message
stringifyArray(value) ==
    CASE value = <<>> -> "[]"
      [] value = <<"x">> -> "[\"x\"]"

\* stringify(value) of a string: JSON.stringify(value), the string in double quotes
stringify(value) ==
    CASE value = "r1" -> "\"r1\""
      [] value = "r2" -> "\"r2\""
      [] value = "x" -> "\"x\""

\* args is None when traceEntry was given no args, else Some(the array), also an empty one
entryMessage(functionName, args) ==
    <<">>>", "Call", functionName>> \o (IF args = None THEN <<>> ELSE <<stringifyArray(args[1])>>)

exitMessage(functionName) == <<"<<<", "Exit", functionName>>

\* what traceExit is told of the call being left: nothing, the value returned, the error thrown
NoOutcome == [kind |-> "none", value |-> ""]

\* the exit message: ' [ERROR]' for an error, else the value when there is one
exitText(functionName, outcome) ==
    exitMessage(functionName)
        \o (IF outcome.kind = "error" THEN <<"[ERROR]">>
            ELSE IF outcome.kind = "value" THEN <<stringify(outcome.value)>> ELSE <<>>)

\* the options traceExit passes to trace(): returnValue and data.error
withOutcome(frames, outcome) ==
    [i \in DOMAIN frames |->
        [frames[i] EXCEPT !.data =
            [returnValue |-> IF outcome.kind = "value" THEN outcome.value ELSE "",
             error |-> IF outcome.kind = "error" THEN outcome.value ELSE ""] @@ @]]

exitFramesAfterDecrement(functionName, outcome, ctx, id) ==
    withOutcome(traceFrames("exit", functionName, exitText(functionName, outcome),
                            [ctx EXCEPT !.nestingLevel = Max(0, @ - 1)], id), outcome)

\* traceExit's call of trace(): the context still has the nestingLevel of the frame being left
exitFrames(functionName, outcome, ctx, id) ==
    withOutcome(traceFrames("exit", functionName, exitText(functionName, outcome), ctx, id), outcome)

traceEntry(a, functionName, args, throws) ==
    /\ CanAct(a) /\ CanResolve(a) /\ Offered < MaxFrames
    /\ LET r == getOrCreateContext(a)
           ctx == [r.ctx EXCEPT !.nestingLevel = entryLevel(@)]
           stk == pushFrame(StackOf(r), functionName, ctx.nestingLevel)
           frames == traceFrames("entry", functionName, entryMessage(functionName, args), ctx, nextId)
       IN  /\ r.ctx.nestingLevel < MaxDepth
           /\ SetContext(r, ctx, stk)
           /\ SetOut(sendAll(Out, frames, throws), Len(frames))
           /\ run' = RunAfterEntry(r, functionName, frames)
           /\ solo' = SoloAfter(a, r, TRUE, frames)
    /\ UNCHANGED <<brokerVars, config, asyncLocal, isInteractiveMode, phase, callStack, contextStack>>
    /\ UNCHANGED <<linkVars, lastTrace>>

\* traceEntry(functionName)
TraceEntry(a, functionName, throws) == traceEntry(a, functionName, None, throws) /\ UNCHANGED execVars

\* traceEntry(functionName, args)
TraceEntryArgs(a, functionName, args, throws) ==
    traceEntry(a, functionName, Some(args), throws) /\ UNCHANGED execVars

\* traceExit(functionName, returnValue, error)
traceExit(a, functionName, outcome, throws) ==
    /\ CanAct(a) /\ CanResolve(a) /\ Offered < MaxFrames
    /\ LET r == getOrCreateContext(a)
           stk == popFrame(StackOf(r))
           frames == exitFrames(functionName, outcome, r.ctx, nextId)
           ctx == [r.ctx EXCEPT !.nestingLevel = exitLevel(@)]
       IN  /\ SetContext(r, ctx, stk)
           /\ SetOut(sendAll(Out, frames, throws), Len(frames))
           /\ run' = RunAfterExit(r, functionName)
           /\ solo' = SoloAfter(a, r, FALSE, frames)
    /\ UNCHANGED <<brokerVars, config, asyncLocal, isInteractiveMode, phase, callStack, contextStack>>
    /\ UNCHANGED <<linkVars, lastTrace>>

TraceExit(a, functionName, throws) == traceExit(a, functionName, NoOutcome, throws) /\ UNCHANGED execVars

(***************************************************************************)
(* exec and wrapFunction.  A function is its name (func.name, "" for a     *)
(* function without one), how it ends (it returns a value or throws an     *)
(* error, or it returns a promise that resolves or rejects) and the value  *)
(* or the error's message.  The callable wrapFunction returns closes over  *)
(* functionName and func; a call of it is a call of exec, in progress from *)
(* its traceEntry to the traceExit made when func has returned or thrown,  *)
(* or when its promise has settled.                                        *)
(***************************************************************************)
\* exec's const functionName = func.name || 'anonymous'
execName(func) == IF func.name = "" THEN "anonymous" ELSE func.name

wrapFunction(functionName, func) == [functionName |-> functionName, func |-> func]

\* isPromiseLike(result)
isPromiseLike(func) == func.outcome \in {"resolves", "rejects"}

\* a variant that reports every outcome as a returned value
outcomeAsValue(func) == [kind |-> "value", value |-> func.value]

\* what exec hands to traceExit, and then returns, rethrows or settles its promise with
outcomeOf(func) ==
    [kind |-> IF func.outcome \in {"throws", "rejects"} THEN "error" ELSE "value", value |-> func.value]

\* a call of the callable w: client.exec(func, ...args) up to the call of func
ExecCall(a, w, args, throws) ==
    /\ Len(calls) < MaxDepth
    /\ traceEntry(a, execName(w.func), Some(args), throws)
    /\ calls' = Append(calls, w)
    /\ returned' = None
    /\ UNCHANGED entered

\* the call in progress at position k ends.  A synchronous func returns or throws
\* once every call made after it is a pending promise (the synchronous calls it
\* made have ended); a promise settles only when no synchronous call is running.
\* traceExit, then the value is returned or the error rethrown
ExecReturn(a, k, throws) ==
    /\ k \in DOMAIN calls
    /\ IF isPromiseLike(calls[k].func)
       THEN \A j \in DOMAIN calls : isPromiseLike(calls[j].func)
       ELSE \A j \in (k + 1)..Len(calls) : isPromiseLike(calls[j].func)
    /\ LET w == calls[k]
       IN  /\ traceExit(a, execName(w.func), outcomeOf(w.func), throws)
           /\ calls' = SubSeq(calls, 1, k - 1) \o SubSeq(calls, k + 1, Len(calls))
           /\ returned' = Some([of |-> w, kind |-> outcomeOf(w.func).kind,
                                value |-> outcomeOf(w.func).value])
           /\ UNCHANGED entered

Log(a, level, message, throws) ==
    /\ CanAct(a) /\ CanResolve(a) /\ Offered < MaxFrames
    /\ LET r == getOrCreateContext(a)
           frame == logFrame(level, message, r.ctx, StackOf(r), nextId)
       IN  /\ SetContext(r, r.ctx, StackOf(r))
           /\ SetOut(sendAll(Out, <<frame>>, throws), 1)
           /\ run' = RunAfterLog(r)
    /\ UNCHANGED <<brokerVars, execVars, config, asyncLocal, isInteractiveMode, phase, callStack, contextStack>>
    /\ UNCHANGED <<linkVars, lastTrace, solo>>

\* getCurrentThreadId(): resolves the context, creating it when there is none, and
\* returns its threadId, getOrCreateContext(a).ctx.threadId
GetCurrentThreadId(a) ==
    /\ CanAct(a) /\ CanResolve(a)
    /\ LET r == getOrCreateContext(a)
       IN  SetContext(r, r.ctx, StackOf(r))
    /\ UNCHANGED <<brokerVars, execVars, config, asyncLocal, isInteractiveMode, phase, callStack, contextStack>>
    /\ UNCHANGED <<linkVars, wire, messageQueue, fileLog, nextId, run, solo, lastTrace>>

\* the filters a subscription is made with: none given, or a ClientMessage filters object
SubscribeFilters == {None, Some([regexInclude |-> {"important"}])}

\* subscribe, unsubscribe and ping: one frame that is not an event is handed to
\* sendMessage; ids is the number of generateId() calls made to build it
sendControl(frame, ids, throws) ==
    /\ ~flushing
    /\ SetOut(sendAll(Out, <<frame>>, throws), ids)
    /\ UNCHANGED <<brokerVars, execVars, config, asyncLocal, traceVars, linkVars, run, solo, lastTrace>>

Subscribe(route, filters, throws) ==
    sendControl([type |-> "subscribe", route |-> route, filters |-> filters], 0, throws)

Unsubscribe(route, throws) == sendControl([type |-> "unsubscribe", route |-> route], 0, throws)

Ping(throws) == Offered < MaxFrames /\ sendControl([type |-> "ping", id |-> nextId], 1, throws)

\* clearLogFile(): the log file is truncated when the file sink is on
ClearLogFile ==
    /\ ~flushing
    /\ fileLog' = IF config.logToFile THEN <<>> ELSE fileLog
    /\ UNCHANGED <<brokerVars, execVars, config, asyncLocal, traceVars, linkVars>>
    /\ UNCHANGED <<wire, messageQueue, nextId, run, solo, lastTrace>>

\* the public trace(type, functionName, message) called directly
Trace(a, functionName, message, throws) ==
    /\ CanAct(a) /\ Offered < MaxFrames
    /\ config.enableTracing => CanResolve(a)
    /\ LET r == getOrCreateContext(a)
           frames == traceFrames("entry", functionName, message, r.ctx, nextId)
       IN  /\ IF config.enableTracing
              THEN SetContext(r, r.ctx, StackOf(r))
              ELSE UNCHANGED <<persistentContext, currentContext, scopeCtx, stacks, threadIdCounter>>
           /\ SetOut(sendAll(Out, frames, throws), Len(frames))
           /\ lastTrace' = Some([message |-> message, ctx |-> r.ctx, enabled |-> config.enableTracing,
                                  maxTraceLevel |-> config.maxTraceLevel, id |-> nextId])
    /\ run' = NoRun
    /\ UNCHANGED <<brokerVars, execVars, config, asyncLocal, isInteractiveMode, phase, callStack, contextStack, solo>>
    /\ UNCHANGED linkVars

(***************************************************************************)
(* runInContext(contextData, callback).  The callback runs inside          *)
(* context.run: its synchronous part at once (the scope is on the call     *)
(* stack until Await or Return), the rest as continuations.                *)
(***************************************************************************)
Partials == {<<>>, [nestingLevel |-> 1]}

\* a variant that copies the existing context and ignores the given partial
overlayNothing(existingCtx, contextData) == existingCtx

\* { ...existingCtx, ...contextData }: a shallow copy, the functionStack array and filters are shared
overlay(existingCtx, contextData) ==
    [f \in DOMAIN existingCtx |->
        IF contextData # <<>> /\ f \in DOMAIN contextData THEN contextData[f] ELSE existingCtx[f]]

runInContext(a, s, contextData) ==
    /\ CanAct(a) /\ CanResolve(a)
    /\ s # a /\ phase[s] = "idle"
    /\ LET r == getOrCreateContext(a)
           newCtx == overlay(r.ctx, contextData)
           per == IF r.where = -1 THEN Some(r.ctx) ELSE persistentContext
           cur == IF r.where = 0 THEN Some(r.ctx) ELSE currentContext
       IN  /\ persistentContext' = per
           /\ currentContext' = cur
           /\ scopeCtx' = [scopeCtx EXCEPT ![s] = Some(newCtx)]
           /\ threadIdCounter' = IF r.created THEN threadIdCounter + 1 ELSE threadIdCounter
           /\ stacks' = stacks
           /\ solo' = [solo EXCEPT ![s] = [base |-> newCtx.nestingLevel, own |-> newCtx.nestingLevel,
                                          cur |-> IF cur = None THEN 0 ELSE cur[1].nestingLevel,
                                          last |-> -1]]
    /\ phase' = [phase EXCEPT ![s] = "sync"]
    /\ callStack' = Append(callStack, s)
    /\ contextStack' = IF asyncLocal THEN contextStack ELSE Append(contextStack, s)
    /\ run' = NoRun
    /\ UNCHANGED <<brokerVars, config, asyncLocal, isInteractiveMode, wire, fileLog, messageQueue, nextId>>
    /\ UNCHANGED <<linkVars, lastTrace>>

RunInContext(a, s, contextData) == runInContext(a, s, contextData) /\ UNCHANGED execVars

\* the same call, with the caller, the context it resolved and the partial it gave noted for scope s
ScopedCall(a, s, contextData) ==
    /\ runInContext(a, s, contextData)
    /\ entered' = [entered EXCEPT ![s] = Some([by |-> a, outer |-> getOrCreateContext(a).where,
                                              given |-> contextData])]
    /\ UNCHANGED <<calls, returned>>

\* the callback of scope s reaches its first await: context.run returns (finally: pop)
Await(s) ==
    /\ ~flushing
    /\ callStack # <<>> /\ Last(callStack) = s
    /\ phase' = [phase EXCEPT ![s] = "async"]
    /\ callStack' = Front(callStack)
    /\ contextStack' = IF asyncLocal THEN contextStack ELSE Front(contextStack)
    /\ UNCHANGED <<brokerVars, execVars, config, asyncLocal, isInteractiveMode, persistentContext, currentContext,
                   threadIdCounter, scopeCtx, stacks, wire, fileLog, messageQueue, nextId, run>>
    /\ UNCHANGED <<linkVars, lastTrace, solo>>

\* the callback of scope s returns or throws (synchronously, or its promise settles)
Return(s) ==
    /\ CanAct(s) /\ s # 0
    /\ LET sc == [scopeCtx EXCEPT ![s] = None]
           refs == StackRefs(persistentContext, currentContext, sc)
       IN  /\ scopeCtx' = sc
           /\ stacks' = [i \in StackIds |-> IF i \in refs THEN stacks[i] ELSE <<>>]
    /\ phase' = [phase EXCEPT ![s] = "done"]
    /\ callStack' = IF phase[s] = "sync" THEN Front(callStack) ELSE callStack
    /\ contextStack' = IF phase[s] = "sync" /\ ~asyncLocal THEN Front(contextStack) ELSE contextStack
    /\ run' = NoRun
    /\ UNCHANGED <<brokerVars, execVars, config, asyncLocal, isInteractiveMode, persistentContext, currentContext,
                   threadIdCounter, wire, fileLog, messageQueue, nextId>>
    /\ UNCHANGED <<linkVars, lastTrace, solo>>

(***************************************************************************)
(* Lifecycle controls.                                                     *)
(***************************************************************************)
DropContexts(per, cur) ==
    LET refs == StackRefs(per, cur, scopeCtx)
    IN  /\ persistentContext' = per
        /\ currentContext' = cur
        /\ stacks' = [i \in StackIds |-> IF i \in refs THEN stacks[i] ELSE <<>>]

EnableInteractiveMode ==
    /\ ~flushing /\ ~isInteractiveMode
    /\ isInteractiveMode' = TRUE
    /\ run' = NoRun
    /\ UNCHANGED <<brokerVars, execVars, config, asyncLocal, persistentContext, currentContext, threadIdCounter,
                   scopeCtx, phase, callStack, contextStack, stacks, wire, fileLog,
                   messageQueue, nextId>>
    /\ UNCHANGED <<linkVars, lastTrace, solo>>

DisableInteractiveMode ==
    /\ ~flushing /\ isInteractiveMode
    /\ isInteractiveMode' = FALSE
    /\ DropContexts(None, currentContext)
    /\ run' = NoRun
    /\ UNCHANGED <<brokerVars, execVars, config, asyncLocal, threadIdCounter, scopeCtx, phase, callStack,
                   contextStack, wire, fileLog, messageQueue, nextId>>
    /\ UNCHANGED <<linkVars, lastTrace, solo>>

ResetTraceContext ==
    /\ ~flushing
    /\ IF isInteractiveMode
       THEN DropContexts(None, currentContext)
       ELSE DropContexts(persistentContext, None)
    /\ run' = NoRun
    /\ UNCHANGED <<brokerVars, execVars, config, asyncLocal, isInteractiveMode, threadIdCounter, scopeCtx, phase,
                   callStack, contextStack, wire, fileLog, messageQueue, nextId>>
    /\ UNCHANGED <<linkVars, lastTrace, solo>>

\* Object.assign(this.config, given): given holds some of the fields of the configuration
assigned(given) == [k \in DOMAIN config |-> IF k \in DOMAIN given THEN given[k] ELSE config[k]]

\* the context with its filters rebuilt from the configuration cfg
withFilters(ctx, cfg) ==
    IF ctx = None THEN None
    ELSE Some([ctx[1] EXCEPT !.filters = [regexInclude |-> cfg.regexInclude,
                                          regexExclude |-> cfg.regexExclude]])

UpdateConfig(a, given) ==
    /\ CanAct(a)
    /\ config' = assigned(given)
    /\ IF "regexInclude" \in DOMAIN given \/ "regexExclude" \in DOMAIN given
       THEN /\ scopeCtx' = [s \in Scopes |-> IF s = contextGet(a) THEN withFilters(scopeCtx[s], config')
                                              ELSE scopeCtx[s]]
            /\ currentContext' = withFilters(currentContext, config')
            /\ persistentContext' = IF isInteractiveMode THEN withFilters(persistentContext, config')
                                    ELSE persistentContext
       ELSE UNCHANGED <<scopeCtx, currentContext, persistentContext>>
    /\ UNCHANGED <<brokerVars, execVars, asyncLocal, isInteractiveMode, threadIdCounter, phase,
                   callStack, contextStack, stacks, wire, fileLog, messageQueue, nextId>>
    /\ UNCHANGED <<linkVars, lastTrace, solo, run>>

\* a variant that never looks at the persistent context
getTraceInfoIgnoresMode(a) ==
    LET ctx == IF contextGet(a) # 0 THEN scopeCtx[contextGet(a)] ELSE currentContext
    IN  IF ctx = None THEN None
        ELSE Some([nestingLevel |-> ctx[1].nestingLevel,
                   functionStack |-> [i \in DOMAIN stacks[ctx[1].functionStack] |->
                                         stacks[ctx[1].functionStack][i].functionName],
                   threadId |-> ctx[1].threadId])

\* getTraceInfo() called by the code of actor a: <<>> is null
getTraceInfo(a) ==
    LET ctx == IF isInteractiveMode THEN persistentContext
               ELSE IF contextGet(a) # 0 THEN scopeCtx[contextGet(a)] ELSE currentContext
    IN  IF ctx = None THEN None
        ELSE Some([nestingLevel |-> ctx[1].nestingLevel,
                   functionStack |-> [i \in DOMAIN stacks[ctx[1].functionStack] |->
                                         stacks[ctx[1].functionStack][i].functionName],
                   threadId |-> ctx[1].threadId])

(***************************************************************************)
(* The peer takes the oldest frame off the link.                           *)
(***************************************************************************)
Deliver ==
    /\ wire # <<>>
    /\ wire' = Tail(wire)
    /\ UNCHANGED <<brokerVars, execVars, config, asyncLocal, fileLog, messageQueue, nextId, run, solo, lastTrace>>
    /\ UNCHANGED traceVars
    /\ UNCHANGED linkVars

(***************************************************************************)
(* The link.  The handlers work on a record of the link fields, so that    *)
(* connect() can call scheduleReconnect() inside one step.                 *)
(***************************************************************************)
Link ==
    [ws |-> ws, sockets |-> sockets, reconnectAttempts |-> reconnectAttempts,
     reconnectTimer |-> reconnectTimer, timers |-> timers, signals |-> signals,
     scheduled |-> scheduled, gaveUp |-> gaveUp]

SetLink(st) ==
    /\ ws' = st.ws
    /\ sockets' = st.sockets
    /\ reconnectAttempts' = st.reconnectAttempts
    /\ reconnectTimer' = st.reconnectTimer
    /\ timers' = st.timers
    /\ signals' = st.signals
    /\ scheduled' = st.scheduled
    /\ gaveUp' = st.gaveUp

emit(st, event) == [st EXCEPT !.signals = Append(@, event)]

\* a variant that leaves the timer pending
clearTimeoutNever(tm, handle) == tm

clearTimeout(tm, handle) == IF handle # 0 THEN [tm EXCEPT ![handle] = 0] ELSE tm

reconnectDelayUncapped(attempts) == 1000 * Pow2(attempts)

reconnectDelay(attempts) == Min(1000 * Pow2(attempts), 30000)

scheduleReconnect(st) ==
    IF st.reconnectAttempts >= config.maxRetries
    THEN [emit(st, "maxRetriesReached") EXCEPT !.gaveUp = TRUE]
    ELSE LET delay == reconnectDelay(st.reconnectAttempts)
             cleared == clearTimeout(st.timers, st.reconnectTimer)
             handle == CHOOSE t \in TimerIds : cleared[t] = 0
         IN  [st EXCEPT !.reconnectAttempts = @ + 1,
                        !.timers = [cleared EXCEPT ![handle] = delay],
                        !.reconnectTimer = handle,
                        !.scheduled = Append(@, delay)]

FreeSockets(st) == {s \in SockIds : st.sockets[s] = -1}

\* connect(); `throws` is whether the WebSocket constructor throws
connect(st, throws) ==
    IF throws THEN scheduleReconnect(st)
    ELSE LET s == CHOOSE s \in FreeSockets(st) : TRUE
         IN  [st EXCEPT !.ws = s, !.sockets[s] = 0]

CanConnect(st, throws) == throws \/ FreeSockets(st) # {}

\* no handler is running
Idle == ~flushing /\ callStack = <<>>

\* connect() called by the user
Connect(throws) ==
    /\ Idle
    /\ CanConnect(Link, throws)
    /\ SetLink(connect([Link EXCEPT !.signals = <<>>, !.gaveUp = FALSE], throws))
    /\ closed' = FALSE
    /\ UNCHANGED <<flushing, messageQueue, wire, fileLog, nextId>>
    /\ UNCHANGED <<brokerVars, execVars, config, asyncLocal, traceVars, run, solo, lastTrace>>

\* the reconnect timeout fires
TimerFire(t, throws) ==
    /\ Idle
    /\ timers[t] > 0
    /\ LET st == [Link EXCEPT !.timers[t] = 0, !.reconnectTimer = 0, !.signals = <<>>]
       IN  /\ CanConnect(st, throws)
           /\ SetLink(connect(st, throws))
    /\ UNCHANGED <<closed, flushing, messageQueue, wire, fileLog, nextId>>
    /\ UNCHANGED <<brokerVars, execVars, config, asyncLocal, traceVars, run, solo, lastTrace>>

\* ws.onopen of socket s, up to the call of flushMessageQueue
SocketOpen(s) ==
    /\ Idle
    /\ sockets[s] = 0
    /\ SetLink(emit([Link EXCEPT !.sockets[s] = 1, !.reconnectAttempts = 0,
                                 !.signals = <<>>, !.scheduled = <<>>], "connected"))
    /\ flushing' = (messageQueue # <<>>)
    /\ UNCHANGED <<closed, messageQueue, wire, fileLog, nextId>>
    /\ UNCHANGED <<brokerVars, execVars, config, asyncLocal, traceVars, run, solo, lastTrace>>

\* one iteration of the loop of flushMessageQueue
FlushStep(throws) ==
    /\ flushing
    /\ LET out == sendMessageFrom([Out EXCEPT !.messageQueue = Tail(messageQueue)],
                                  Head(messageQueue), throws)
       IN  /\ SetOut(out, 0)
           /\ flushing' = (out.messageQueue # <<>>)
    /\ UNCHANGED <<ws, sockets, reconnectAttempts, reconnectTimer, timers, signals,
                   scheduled, gaveUp, closed>>
    /\ UNCHANGED <<brokerVars, execVars, config, asyncLocal, traceVars, run, solo, lastTrace>>

\* ws.onclose of socket s
SocketClose(s) ==
    /\ Idle
    /\ sockets[s] \in {0, 1, 2}
    /\ SetLink(scheduleReconnect(emit([Link EXCEPT !.sockets[s] = -1, !.ws = 0,
                                                   !.signals = <<>>], "disconnected")))
    /\ UNCHANGED <<closed, flushing, messageQueue, wire, fileLog, nextId>>
    /\ UNCHANGED <<brokerVars, execVars, config, asyncLocal, traceVars, run, solo, lastTrace>>

\* ws.onerror of socket s
SocketError(s) ==
    /\ Idle
    /\ sockets[s] \in {0, 1, 2}
    /\ signals # <<"error">>
    /\ SetLink(emit([Link EXCEPT !.signals = <<>>], "error"))
    /\ UNCHANGED <<closed, flushing, messageQueue, wire, fileLog, nextId>>
    /\ UNCHANGED <<brokerVars, execVars, config, asyncLocal, traceVars, run, solo, lastTrace>>

\* close()
Close ==
    /\ Idle
    /\ SetLink([Link EXCEPT !.timers = clearTimeout(@, reconnectTimer),
                            !.sockets = IF ws # 0 /\ sockets[ws] \in {0, 1}
                                        THEN [@ EXCEPT ![ws] = 2] ELSE @,
                            !.signals = <<>>])
    /\ closed' = TRUE
    /\ UNCHANGED <<flushing, messageQueue, wire, fileLog, nextId>>
    /\ UNCHANGED <<brokerVars, execVars, config, asyncLocal, traceVars, run, solo, lastTrace>>

(***************************************************************************)
(* The broker (WSLogServer).  A route is the sequence of the pieces of its *)
(* string ("/trace/deep" is <<"/", "trace", "/", "deep">>, "/tracer" is    *)
(* <<"/", "trace", "r">>), so that String.startsWith is the prefix order   *)
(* of sequences.  A pattern is a word as in the producer's filter; the     *)
(* word "(" is a pattern that does not compile.  An optional field is <<>> *)
(* or <<value>>.                                                           *)
(***************************************************************************)
Links == {1, 2}

RootRoute == <<"/">>
TraceRoute == <<"/", "trace">>
DeepRoute == <<"/", "trace", "/", "deep">>
TracerRoute == <<"/", "trace", "r">>
SettingsRoute == <<"/", "settings">>

startsWith(s, p) == Len(p) <= Len(s) /\ SubSeq(s, 1, Len(p)) = p

\* the loop of getRouteConfig over the rest of the configured routes
RECURSIVE routeScan(_, _, _, _)
routeScan(routes, route, match, maxLen) ==
    IF routes = <<>> THEN match
    ELSE LET routeConfig == Head(routes)
         IN  IF startsWith(route, routeConfig.route) /\ Len(routeConfig.route) > maxLen
             THEN routeScan(Tail(routes), route, Some(routeConfig), Len(routeConfig.route))
             ELSE routeScan(Tail(routes), route, match, maxLen)

getRouteConfigFirstMatch(route) ==
    LET hits == {i \in DOMAIN serverRoutes : startsWith(route, serverRoutes[i].route)}
    IN  IF hits = {} THEN None ELSE Some(serverRoutes[CHOOSE i \in hits : \A j \in hits : i <= j])

getRouteConfig(route) == routeScan(serverRoutes, route, None, -1)

getDefaultRoutes ==
    << [route |-> RootRoute, output |-> "wslog-requests.jsonl", capture |-> "full"],
       [route |-> TracerRoute, output |-> "console", capture |-> "bodyOnly"],
       [route |-> TraceRoute, output |-> "trace.log", capture |-> "full"],
       [route |-> SettingsRoute, output |-> ".wslog-settings.json", capture |-> "bodyOnly"] >>

\* new RegExp(pattern) throws a SyntaxError
Uncompilable(pattern) == pattern = "("

\* patterns.some(pattern => new RegExp(pattern).test(message)): "match", "none" or "throws"
RECURSIVE someMatch(_, _)
someMatch(patterns, message) ==
    IF patterns = <<>> THEN "none"
    ELSE IF Uncompilable(Head(patterns)) THEN "throws"
    ELSE IF RegexTest(Head(patterns), message) THEN "match"
    ELSE someMatch(Tail(patterns), message)

InSeq(x, s) == \E i \in DOMAIN s : s[i] = x

\* shouldSendToClient(client, message): "send", "skip" or "throws"
shouldSendToClient(client, data) ==
    IF client.filters = None THEN "send"
    ELSE LET filters == client.filters[1]
             includeMatch == IF filters.regexInclude # <<>>
                             THEN someMatch(filters.regexInclude, data.message) ELSE "match"
             excludeMatch == IF filters.regexExclude # <<>>
                             THEN someMatch(filters.regexExclude, data.message) ELSE "none"
         IN  IF filters.levels # <<>> /\ ~InSeq(data.level, filters.levels) THEN "skip"
             ELSE IF filters.sources # <<>>
                     /\ (data.source = "" \/ ~InSeq(data.source, filters.sources)) THEN "skip"
             ELSE IF includeMatch = "throws" THEN "throws"
             ELSE IF includeMatch = "none" THEN "skip"
             ELSE IF excludeMatch = "throws" THEN "throws"
             ELSE IF excludeMatch = "match" THEN "skip"
             ELSE "send"

\* sendToClient(client, message): the effects it adds (none when the socket is not open)
sendToClient(l, message, failing) ==
    IF conn[l].readyState = 1
    THEN << [kind |-> "send", to |-> l, message |-> message, threw |-> l \in failing] >>
    ELSE <<>>

(***************************************************************************)
(* Construction.  The trace engine below is a client constructed with      *)
(* tracing enabled, whose link is open.                                    *)
(***************************************************************************)
defaultMaxRetries == 5

ConfigOf(given) ==
    [serverless |-> given.serverless,
     enableTracing |-> given.enableTracing,
     maxTraceLevel |-> IF given.maxTraceLevel = 0 THEN -1 ELSE given.maxTraceLevel,
     regexInclude |-> given.regexInclude,
     regexExclude |-> given.regexExclude,
     maxRetries |-> IF given.maxRetries = 0 THEN defaultMaxRetries ELSE given.maxRetries,
     logToFile |-> given.logToFile,
     source |-> "host"]

\* no broker is part of the behaviour
BrokerAbsent ==
    /\ serverRoutes = <<>>
    /\ clients = <<>>
    /\ conn = <<>>
    /\ totalMessages = 0
    /\ effects = <<>>
    /\ inbound = <<>>

ProducerFields(given) ==
    /\ config = ConfigOf(given)
    /\ isInteractiveMode = FALSE
    /\ persistentContext = None
    /\ currentContext = None
    /\ threadIdCounter = 1
    /\ scopeCtx = [s \in Scopes |-> None]
    /\ phase = [s \in Scopes |-> "idle"]
    /\ callStack = <<>>
    /\ contextStack = <<>>
    /\ stacks = [i \in StackIds |-> <<>>]
    /\ messageQueue = <<>>
    /\ flushing = FALSE
    /\ wire = <<>>
    /\ fileLog = <<>>
    /\ nextId = 1
    /\ run = NoRun
    /\ solo = [s \in Scopes |-> NoSolo]
    /\ lastTrace = None
    /\ closed = FALSE
    /\ calls = <<>>
    /\ returned = None
    /\ entered = [s \in Scopes |-> None]

Constructed(given) == ProducerFields(given) /\ BrokerAbsent

\* the link fields before the constructor calls connect()
LinkAtRest ==
    [ws |-> 0, sockets |-> [s \in SockIds |-> -1], reconnectAttempts |-> 0, reconnectTimer |-> 0,
     timers |-> [t \in TimerIds |-> 0], signals |-> <<>>, scheduled |-> <<>>, gaveUp |-> FALSE]

\* the link with its first socket open
LinkOpen == [LinkAtRest EXCEPT !.ws = 1, !.sockets[1] = 1]

LinkIs(st) ==
    /\ ws = st.ws
    /\ sockets = st.sockets
    /\ reconnectAttempts = st.reconnectAttempts
    /\ reconnectTimer = st.reconnectTimer
    /\ timers = st.timers
    /\ signals = st.signals
    /\ scheduled = st.scheduled
    /\ gaveUp = st.gaveUp

TraceGiven ==
    [serverless |-> FALSE, enableTracing |-> TRUE, maxTraceLevel |-> 0, regexInclude |-> {},
     regexExclude |-> {}, maxRetries |-> 0, logToFile |-> FALSE]

InitTrace ==
    /\ Constructed(TraceGiven)
    /\ asyncLocal = TRUE
    /\ LinkIs(LinkOpen)

NextTrace ==
    \/ \E f \in Names : Len(wire) < MaxInFlight /\ TraceEntry(0, f, FALSE)
    \/ \E f \in Names : Len(wire) < MaxInFlight /\ TraceExit(0, f, FALSE)
    \/ \E f \in Names, args \in ArgLists : Len(wire) < MaxInFlight /\ TraceEntryArgs(0, f, args, FALSE)
    \/ Len(wire) < MaxInFlight /\ Log(0, "info", <<"hi">>, FALSE)
    \/ GetCurrentThreadId(0)
    \/ Deliver
    \/ EnableInteractiveMode
    \/ DisableInteractiveMode
    \/ ResetTraceContext

SpecTrace == InitTrace /\ [][NextTrace]_vars

\* The frames stay on the socket's record: wire is the whole emission stream.
NextStream ==
    \/ \E f \in Names : TraceEntry(0, f, FALSE)
    \/ \E f \in Names : TraceExit(0, f, FALSE)
    \/ EnableInteractiveMode
    \/ DisableInteractiveMode
    \/ ResetTraceContext

SpecStream == InitTrace /\ [][NextStream]_vars

(***************************************************************************)
(* Concurrent runInContext scopes, in either environment.                  *)
(***************************************************************************)
InitScopes ==
    /\ Constructed(TraceGiven)
    /\ asyncLocal \in BOOLEAN
    /\ LinkIs(LinkOpen)

FrameName == [a \in Actors |-> IF a = 0 THEN "main" ELSE IF a = 1 THEN "a" ELSE "b"]

NextScopes ==
    \/ \E s \in Scopes : Len(wire) < MaxInFlight /\ TraceEntry(s, FrameName[s], FALSE)
    \/ \E s \in Scopes : Len(wire) < MaxInFlight /\ TraceExit(s, FrameName[s], FALSE)
    \/ \E a \in Actors, s \in Scopes, p \in Partials : RunInContext(a, s, p)
    \/ \E s \in Scopes : Await(s)
    \/ \E s \in Scopes : Return(s)
    \/ Deliver

SpecScopes == InitScopes /\ [][NextScopes]_vars

\* Scopes started from the top level, from a running scope or from its continuation.
NextNest ==
    \/ \E a \in Actors : Len(wire) < MaxInFlight /\ TraceEntry(a, FrameName[a], FALSE)
    \/ \E a \in Actors, s \in Scopes, p \in Partials : ScopedCall(a, s, p)
    \/ \E s \in Scopes : Await(s)
    \/ \E s \in Scopes : Return(s)
    \/ Deliver

SpecNest == InitScopes /\ [][NextNest]_vars

(***************************************************************************)
(* The producer-side filter: a logger constructed with any include and     *)
(* exclude pattern sets and a depth limit, tracing outside every scope.    *)
(***************************************************************************)
TraceLevels == {-1, 1}

InitFilter ==
    /\ \E I \in SUBSET Words, E \in SUBSET Words, maxTraceLevel \in TraceLevels :
           Constructed([TraceGiven EXCEPT !.regexInclude = I, !.regexExclude = E,
                                          !.maxTraceLevel = maxTraceLevel])
    /\ asyncLocal = TRUE
    /\ LinkIs(LinkOpen)

NextFilter ==
    \/ \E m \in UserMessages : Len(wire) < MaxInFlight /\ Trace(0, "a", m, FALSE)
    \/ Len(wire) < MaxInFlight /\ TraceEntry(0, "a", FALSE)
    \/ Len(wire) < MaxInFlight /\ TraceExit(0, "a", FALSE)
    \/ Deliver

SpecFilter == InitFilter /\ [][NextFilter]_vars

\* Depth limits, switches and exclude patterns given at construction or through updateConfig.
DepthLevels == {-1, 0, 1}
ConfigMessages == {<<"hi">>, <<"skip", "message">>}
ConfigUpdates ==
    {[maxTraceLevel |-> v] : v \in DepthLevels}
    \cup {[enableTracing |-> b] : b \in BOOLEAN}
    \cup {[regexExclude |-> E] : E \in {{}, {"message"}}}

InitConfig ==
    /\ \E maxTraceLevel \in DepthLevels, enableTracing \in BOOLEAN :
           Constructed([TraceGiven EXCEPT !.maxTraceLevel = maxTraceLevel,
                                          !.enableTracing = enableTracing])
    /\ asyncLocal = TRUE
    /\ LinkIs(LinkOpen)

NextConfig ==
    \/ \E given \in ConfigUpdates : UpdateConfig(0, given)
    \/ \E m \in ConfigMessages : Len(wire) < MaxInFlight /\ Trace(0, "a", m, FALSE)
    \/ Len(wire) < MaxInFlight /\ Log(0, "info", <<"skip", "message">>, FALSE)
    \/ Len(wire) < MaxInFlight /\ TraceEntry(0, "a", FALSE)
    \/ Len(wire) < MaxInFlight /\ TraceExit(0, "a", FALSE)
    \/ Deliver

SpecConfig == InitConfig /\ [][NextConfig]_vars

(***************************************************************************)
(* Reconnection: a logger constructed with a retry limit, whose            *)
(* constructor has called connect(); sockets open, fail and close, the     *)
(* user connects and closes.  Nothing is logged, so the queue stays empty. *)
(***************************************************************************)
RetryInputs == {0, 1, 6}

InitReconnect ==
    /\ \E maxRetries \in RetryInputs : Constructed([TraceGiven EXCEPT !.maxRetries = maxRetries])
    /\ asyncLocal = TRUE
    /\ \E throws \in BOOLEAN : LinkIs(connect(LinkAtRest, throws))

NextReconnect ==
    \/ \E throws \in BOOLEAN : Connect(throws)
    \/ \E t \in TimerIds, throws \in BOOLEAN : TimerFire(t, throws)
    \/ \E s \in SockIds : SocketOpen(s)
    \/ \E s \in SockIds : SocketClose(s)
    \/ \E s \in SockIds : SocketError(s)
    \/ Close

SpecReconnect == InitReconnect /\ [][NextReconnect]_vars

\* The same link, with maxRetries changed through updateConfig while it runs.
RetryUpdates == {[maxRetries |-> m] : m \in {1, 6}}

NextRetry ==
    \/ \E throws \in BOOLEAN : Connect(throws)
    \/ \E t \in TimerIds, throws \in BOOLEAN : TimerFire(t, throws)
    \/ \E s \in SockIds : SocketOpen(s)
    \/ \E s \in SockIds : SocketClose(s)
    \/ \E s \in SockIds : SocketError(s)
    \/ Close
    \/ \E given \in RetryUpdates : UpdateConfig(0, given)

SpecRetry == InitReconnect /\ [][NextRetry]_vars

(***************************************************************************)
(* Transmission: the user logs while the link connects, opens, closes and  *)
(* reconnects; ws.send may throw.                                          *)
(***************************************************************************)
InitSend ==
    /\ Constructed(TraceGiven)
    /\ asyncLocal = TRUE
    /\ LinkIs(connect(LinkAtRest, FALSE))

\* the subscribe and unsubscribe frames handed to ws.send or waiting in the queue
IdlessFrames(q) == Cardinality({i \in DOMAIN q : "id" \notin DOMAIN q[i]})

ControlPending == IdlessFrames(wire) + IdlessFrames(messageQueue)

NextSend ==
    \/ \E throws \in BOOLEAN : Log(0, "info", <<"hi">>, throws)
    \/ \E f \in SubscribeFilters, throws \in BOOLEAN :
          ControlPending < MaxControl /\ Subscribe("/logs", f, throws)
    \/ \E throws \in BOOLEAN : ControlPending < MaxControl /\ Unsubscribe("/logs", throws)
    \/ \E throws \in BOOLEAN : Ping(throws)
    \/ \E s \in SockIds : SocketOpen(s)
    \/ \E throws \in BOOLEAN : FlushStep(throws)
    \/ \E s \in SockIds : SocketClose(s)
    \/ \E t \in TimerIds : TimerFire(t, FALSE)

SpecSend == InitSend /\ [][NextSend]_vars

\* flushMessageQueue is a synchronous loop: once started, its next iteration always runs
SpecFlush == SpecSend /\ WF_vars(\E throws \in BOOLEAN : FlushStep(throws))

\* The same producer with the file sink on (logToFile).
InitSink ==
    /\ Constructed([TraceGiven EXCEPT !.logToFile = TRUE])
    /\ asyncLocal = TRUE
    /\ LinkIs(connect(LinkAtRest, FALSE))

NextSink ==
    \/ \E throws \in BOOLEAN : Log(0, "info", <<"hi">>, throws)
    \/ \E throws \in BOOLEAN : Ping(throws)
    \/ ClearLogFile
    \/ \E s \in SockIds : SocketOpen(s)
    \/ \E throws \in BOOLEAN : Len(fileLog) < MaxLines /\ FlushStep(throws)
    \/ \E s \in SockIds : SocketClose(s)
    \/ \E t \in TimerIds : TimerFire(t, FALSE)

SpecSink == InitSink /\ [][NextSink]_vars

\* a value that `||` skips: undefined or the empty string
Falsy(field) == field = None \/ field[1] = <<>>

\* a variant with one default for both kinds of event
defaultRouteAlwaysRoot(type) == RootRoute

defaultRouteOf(type) == IF type = "trace" THEN TraceRoute ELSE RootRoute

\* message.route || client.route || default
dispatchRoute(client, frame) ==
    IF ~Falsy(frame.route) THEN frame.route[1]
    ELSE IF ~Falsy(client.route) THEN client.route[1]
    ELSE defaultRouteOf(frame.type)

\* processLogMessage / processTraceEntry with writeToOutput
persist(routeConfig, l, frame) ==
    << [kind |-> "persist", output |-> routeConfig.output,
        entry |-> IF routeConfig.capture = "payloadOnly" THEN [data |-> frame.data]
                  ELSE IF routeConfig.capture = "bodyOnly" THEN frame.data
                  ELSE [clientId |-> l, route |-> conn[l].route, type |-> frame.type,
                        data |-> frame.data]] >>

\* clients.forEach of broadcastToSubscribers over the rest of the map
RECURSIVE broadcastToSubscribers(_, _, _, _)
broadcastToSubscribers(rest, message, route, failing) ==
    IF rest = <<>> THEN [effects |-> <<>>, threw |-> FALSE]
    ELSE LET l == Head(rest)
             verdict == IF InSeq(route, conn[l].subscriptions)
                        THEN shouldSendToClient(conn[l], message.data) ELSE "skip"
             others == broadcastToSubscribers(Tail(rest), message, route, failing)
         IN  IF verdict = "throws" THEN [effects |-> <<>>, threw |-> TRUE]
             ELSE IF verdict = "send"
             THEN [effects |-> sendToClient(l, message, failing) \o others.effects, threw |-> others.threw]
             ELSE others

errorMessage(text) == [type |-> "error", error |-> text]

okStatus(id) == [type |-> "status", status |-> "ok", id |-> id]

\* a variant that acknowledges the frame even when no route configuration is found
handleEventAckAlways(l, frame, failing) ==
    LET route == dispatchRoute(conn[l], frame)
        routeConfig == getRouteConfig(route)
        cast == broadcastToSubscribers(clients, [type |-> frame.type, data |-> frame.data], route, failing)
    IN  IF routeConfig = None
        THEN [effects |-> sendToClient(l, errorMessage("No route configuration found"), failing)
                            \o sendToClient(l, okStatus(frame.id), failing),
              threw |-> FALSE]
        ELSE IF cast.threw
        THEN [effects |-> persist(routeConfig[1], l, frame) \o cast.effects, threw |-> TRUE]
        ELSE [effects |-> persist(routeConfig[1], l, frame) \o cast.effects
                            \o sendToClient(l, okStatus(frame.id), failing),
              threw |-> FALSE]

\* handleLogMessage / handleTraceMessage
handleEvent(l, frame, failing) ==
    LET route == dispatchRoute(conn[l], frame)
        routeConfig == getRouteConfig(route)
        cast == broadcastToSubscribers(clients, [type |-> frame.type, data |-> frame.data], route, failing)
    IN  IF routeConfig = None
        THEN [effects |-> sendToClient(l, errorMessage("No route configuration found"), failing),
              threw |-> FALSE]
        ELSE IF cast.threw
        THEN [effects |-> persist(routeConfig[1], l, frame) \o cast.effects, threw |-> TRUE]
        ELSE [effects |-> persist(routeConfig[1], l, frame) \o cast.effects
                            \o sendToClient(l, okStatus(frame.id), failing),
              threw |-> FALSE]

\* handleSubscription: the client after it
subscribed(client, frame) ==
    LET route == IF ~Falsy(frame.route) THEN frame.route[1] ELSE RootRoute
    IN  [client EXCEPT !.subscriptions = IF InSeq(route, @) THEN @ ELSE Append(@, route),
                       !.filters = IF frame.filters # None THEN frame.filters ELSE @,
                       !.route = Some(route)]

\* a variant that leaves the subscription in place
unsubscribedKeeps(client, frame) == client

\* handleUnsubscription: the client after it
unsubscribed(client, frame) ==
    LET route == IF ~Falsy(frame.route) THEN frame.route[1] ELSE RootRoute
    IN  [client EXCEPT !.subscriptions = SelectSeq(@, LAMBDA r : r # route)]

\* a variant that stops serving a link after a frame of unknown type
handleClientMessageDropsUnknown(l, frame, failing) ==
    LET counted == conn[l]
    IN  IF frame.type \in {"log", "trace"}
        THEN LET r == handleEvent(l, frame, failing)
             IN  [effects |-> r.effects, threw |-> r.threw, client |-> counted]
        ELSE IF frame.type = "ping"
        THEN [effects |-> sendToClient(l, [type |-> "pong"], failing), threw |-> FALSE, client |-> counted]
        ELSE IF frame.type = "subscribe"
        THEN LET after == subscribed(counted, frame)
             IN  [effects |-> sendToClient(l, [type |-> "status", status |-> "subscribed",
                                                route |-> after.route[1], filters |-> after.filters], failing),
                  threw |-> FALSE, client |-> after]
        ELSE IF frame.type = "unsubscribe"
        THEN [effects |-> sendToClient(l, [type |-> "status", status |-> "unsubscribed",
                                           route |-> IF ~Falsy(frame.route) THEN frame.route[1] ELSE RootRoute],
                                       failing),
              threw |-> FALSE, client |-> unsubscribed(counted, frame)]
        ELSE [effects |-> sendToClient(l, errorMessage("Unknown message type"), failing),
              threw |-> FALSE, client |-> [counted EXCEPT !.readyState = 2]]

\* handleClientMessage after the counters (which go up together, see Message): the effects,
\* whether it threw, the client after it
handleClientMessage(l, frame, failing) ==
    LET counted == conn[l]
    IN  IF frame.type \in {"log", "trace"}
        THEN LET r == handleEvent(l, frame, failing)
             IN  [effects |-> r.effects, threw |-> r.threw, client |-> counted]
        ELSE IF frame.type = "ping"
        THEN [effects |-> sendToClient(l, [type |-> "pong"], failing), threw |-> FALSE, client |-> counted]
        ELSE IF frame.type = "subscribe"
        THEN LET after == subscribed(counted, frame)
             IN  [effects |-> sendToClient(l, [type |-> "status", status |-> "subscribed",
                                                route |-> after.route[1], filters |-> after.filters], failing),
                  threw |-> FALSE, client |-> after]
        ELSE IF frame.type = "unsubscribe"
        THEN [effects |-> sendToClient(l, [type |-> "status", status |-> "unsubscribed",
                                           route |-> IF ~Falsy(frame.route) THEN frame.route[1] ELSE RootRoute],
                                       failing),
              threw |-> FALSE, client |-> unsubscribed(counted, frame)]
        ELSE [effects |-> sendToClient(l, errorMessage("Unknown message type"), failing),
              threw |-> FALSE, client |-> counted]

noClient == [readyState |-> -1, subscriptions |-> <<>>, filters |-> None, route |-> None]

producerVars == <<config, asyncLocal, traceVars, linkVars, messageQueue, wire, fileLog, nextId,
                  run, solo, lastTrace, execVars>>

\* the sinks and the sockets have taken what the last handler gave them
Quiet == effects = <<>> /\ inbound = None

Drain ==
    /\ ~Quiet
    /\ effects' = <<>>
    /\ inbound' = None
    /\ UNCHANGED <<serverRoutes, clients, conn, totalMessages, producerVars>>

\* wss.on('connection') for a new link l
Connection(l) ==
    /\ Quiet
    /\ conn[l].readyState = -1
    /\ clients' = Append(clients, l)
    /\ conn' = [conn EXCEPT ![l] = [noClient EXCEPT !.readyState = 1]]
    /\ effects' = << [kind |-> "send", to |-> l, threw |-> FALSE,
                      message |-> [type |-> "status", status |-> "connected"]] >>
    /\ inbound' = None
    /\ UNCHANGED <<serverRoutes, totalMessages, producerVars>>

\* ws.on('message') of link l, whose socket is open or closing (the handler runs
\* for every frame the socket delivers); raw is the text received: <<>> does not
\* parse, <<frame>> parses to frame; ws.send throws for the links in `failing`
Message(l, raw, failing) ==
    /\ Quiet
    /\ conn[l].readyState \in {1, 2}
    /\ IF raw = None
       THEN /\ effects' = sendToClient(l, errorMessage("Invalid message format"), failing)
            /\ inbound' = Some([link |-> l, frame |-> raw, route |-> None, routeConfig |-> None])
            /\ UNCHANGED <<conn, totalMessages>>
       ELSE LET frame == raw[1]
                r == handleClientMessage(l, frame, failing)
            IN  /\ totalMessages < MaxBrokerFrames
                /\ totalMessages' = totalMessages + 1
                /\ conn' = [conn EXCEPT ![l] = r.client]
                /\ effects' = IF r.threw
                              THEN r.effects \o sendToClient(l, errorMessage("Invalid message format"), failing)
                              ELSE r.effects
                /\ inbound' = Some([link |-> l, frame |-> raw,
                                    route |-> IF frame.type \in {"log", "trace"}
                                              THEN Some(dispatchRoute(conn[l], frame)) ELSE None,
                                    routeConfig |-> IF frame.type \in {"log", "trace"}
                                                    THEN getRouteConfig(dispatchRoute(conn[l], frame))
                                                    ELSE None])
    /\ UNCHANGED <<serverRoutes, clients, producerVars>>

\* the peer of link l starts the closing handshake
LinkClosing(l) ==
    /\ Quiet
    /\ conn[l].readyState = 1
    /\ conn' = [conn EXCEPT ![l].readyState = 2]
    /\ effects' = <<>>
    /\ inbound' = None
    /\ UNCHANGED <<serverRoutes, clients, totalMessages, producerVars>>

\* ws.on('close') of link l
LinkClose(l) ==
    /\ Quiet
    /\ conn[l].readyState \in {1, 2}
    /\ clients' = SelectSeq(clients, LAMBDA c : c # l)
    /\ conn' = [conn EXCEPT ![l] = noClient]
    /\ effects' = <<>>
    /\ inbound' = None
    /\ UNCHANGED <<serverRoutes, totalMessages, producerVars>>

\* ws.on('error') of link l
LinkError(l) ==
    /\ Quiet
    /\ conn[l].readyState \in {1, 2}
    /\ InSeq(l, clients)
    /\ clients' = SelectSeq(clients, LAMBDA c : c # l)
    /\ effects' = <<>>
    /\ inbound' = None
    /\ UNCHANGED <<serverRoutes, conn, totalMessages, producerVars>>

\* the WSLogServer constructor with config.routes = routes (<<>>: not given)
ServerConstructed(routes) ==
    /\ serverRoutes = IF routes = None THEN getDefaultRoutes ELSE routes[1]
    /\ clients = <<>>
    /\ conn = [l \in Links |-> noClient]
    /\ totalMessages = 0
    /\ effects = <<>>
    /\ inbound = None

\* no producer is part of the behaviour
ProducerAbsent ==
    /\ ProducerFields([TraceGiven EXCEPT !.serverless = TRUE])
    /\ asyncLocal = TRUE
    /\ LinkIs(LinkAtRest)

(***************************************************************************)
(* Serverless mode: the constructor does not call connect(); the user logs *)
(* and traces, with or without the file sink.                              *)
(***************************************************************************)
isConnected == ~config.serverless /\ getWebSocketState = 1

\* the constructor's last statement: connect() unless serverless
constructorLink(given, throws) ==
    IF ~given.serverless THEN connect(LinkAtRest, throws) ELSE LinkAtRest

InitServerless ==
    /\ \E logToFile \in BOOLEAN :
           Constructed([TraceGiven EXCEPT !.serverless = TRUE, !.logToFile = logToFile,
                                          !.maxRetries = 1])
    /\ asyncLocal = TRUE
    /\ LinkIs(constructorLink([serverless |-> TRUE], FALSE))

\* updateConfig({logToFile: ...}): the file sink is switched on or off
SinkUpdates == {[logToFile |-> b] : b \in BOOLEAN}

\* the producer may offer a frame with an id: less than MaxEvents were offered
MayOffer == Offered < MaxEvents

\* A producer constructed serverless: its queue is empty, so the loop of
\* flushMessageQueue never runs an iteration, and nothing is handed to the link.
NextServerless ==
    \/ MayOffer /\ Log(0, "info", <<"important", "message">>, FALSE)
    \/ MayOffer /\ TraceEntry(0, "a", FALSE)
    \/ MayOffer /\ TraceExit(0, "a", FALSE)
    \/ \E f \in SubscribeFilters : Subscribe("/logs", f, FALSE)
    \/ Unsubscribe("/logs", FALSE)
    \/ MayOffer /\ Ping(FALSE)
    \/ ClearLogFile
    \/ \E given \in SinkUpdates : UpdateConfig(0, given)
    \/ Connect(FALSE)
    \/ \E t \in TimerIds : TimerFire(t, FALSE)
    \/ \E s \in SockIds : SocketOpen(s)
    \/ \E s \in SockIds : SocketClose(s)
    \/ Close

SpecServerless == InitServerless /\ [][NextServerless]_vars

(***************************************************************************)
(* The broker with up to two links, each of which may subscribe,           *)
(* unsubscribe, send events, pings, frames of unknown type and text that   *)
(* does not parse.                                                         *)
(***************************************************************************)
Events ==
    { [level |-> "info", source |-> "host", message |-> <<"important", "message">>],
      [level |-> "error", source |-> "", message |-> <<"hi">>] }

NoFilters == [levels |-> <<>>, sources |-> <<>>, regexInclude |-> <<>>, regexExclude |-> <<>>]

FilterInputs ==
    { None,
      Some([NoFilters EXCEPT !.levels = <<"error">>]),
      Some([NoFilters EXCEPT !.sources = <<"host">>]),
      Some([NoFilters EXCEPT !.regexInclude = <<"important">>, !.regexExclude = <<"message">>]),
      Some([NoFilters EXCEPT !.regexExclude = <<"(">>]) }

OtherRoute == <<"other">>

EventFrames ==
    { [type |-> "log", id |-> "m1", route |-> r, data |-> e, filters |-> None] :
        r \in {None, Some(TraceRoute), Some(OtherRoute)}, e \in Events }
    \cup { [type |-> "trace", id |-> "m2", route |-> r, data |-> e, filters |-> None] :
             r \in {None, Some(<<>>)}, e \in Events }

ControlFrames ==
    { [type |-> "subscribe", id |-> "c1", route |-> Some(TraceRoute), data |-> None, filters |-> f] :
        f \in FilterInputs }
    \cup { [type |-> t, id |-> "c1", route |-> None, data |-> None, filters |-> None] :
             t \in {"subscribe", "unsubscribe", "ping", "bogus"} }
    \cup { [type |-> "unsubscribe", id |-> "c1", route |-> Some(TraceRoute), data |-> None, filters |-> None] }

RawFrames == {None} \cup {Some(f) : f \in EventFrames \cup ControlFrames}

TraceOnlyRoutes == << [route |-> TraceRoute, output |-> "trace.log", capture |-> "bodyOnly"] >>

InitBroker ==
    /\ ProducerAbsent
    /\ \E routes \in {None, Some(TraceOnlyRoutes)} : ServerConstructed(routes)

NextBroker ==
    \/ \E l \in Links : Connection(l)
    \/ \E l \in Links, raw \in RawFrames : Message(l, raw, {})
    \/ \E l \in Links, f \in EventFrames : Message(l, Some(f), {2})
    \/ Drain
    \/ \E l \in Links : LinkClosing(l)
    \/ \E l \in Links : LinkClose(l)
    \/ \E l \in Links : LinkError(l)

SpecBroker == InitBroker /\ [][NextBroker]_vars

(***************************************************************************)
(* Route selection: a broker constructed with any table made of five       *)
(* candidate routes, in either order, and one link sending log frames on   *)
(* explicit routes.                                                        *)
(***************************************************************************)
CandidateRoutes == <<RootRoute, TracerRoute, TraceRoute, DeepRoute, SettingsRoute>>

\* the candidates at the positions in `keep`, in the candidates' order
RECURSIVE tableOf(_, _)
tableOf(keep, i) ==
    IF i > Len(CandidateRoutes) THEN <<>>
    ELSE (IF i \in keep THEN << [route |-> CandidateRoutes[i], output |-> "console", capture |-> "bodyOnly"] >>
          ELSE <<>>) \o tableOf(keep, i + 1)

Reversed(s) == [i \in 1..Len(s) |-> s[Len(s) + 1 - i]]

RouteTables ==
    {tableOf(keep, 1) : keep \in SUBSET (1..Len(CandidateRoutes))}
    \cup {Reversed(tableOf(keep, 1)) : keep \in SUBSET (1..Len(CandidateRoutes))}

RouteInputs ==
    { RootRoute, TraceRoute, TracerRoute, DeepRoute \o <<"/", "x">>, TraceRoute \o <<"/", "y">>,
      <<"/", "other">>, OtherRoute }

InitRoute ==
    /\ ProducerAbsent
    /\ \E routes \in RouteTables : ServerConstructed(Some(routes))

NextRoute ==
    \/ Connection(1)
    \/ \E r \in RouteInputs, e \in Events :
          Message(1, Some([type |-> "log", id |-> "m1", route |-> Some(r), data |-> e, filters |-> None]), {})
    \/ Drain

SpecRoute == InitRoute /\ [][NextRoute]_vars

(***************************************************************************)
(* Thread ids: top-level runInContext scopes (started by code outside      *)
(* every scope) tracing next to that code, in scoped and in                *)
(* interactive mode, with resets.                                          *)
(***************************************************************************)
InitThreads ==
    /\ Constructed(TraceGiven)
    /\ asyncLocal \in BOOLEAN
    /\ LinkIs(LinkOpen)

NextThreads ==
    \/ \E s \in Scopes : RunInContext(0, s, <<>>)
    \/ \E a \in Actors : Len(wire) < MaxInFlight /\ TraceEntry(a, FrameName[a], FALSE)
    \/ \E a \in Actors : GetCurrentThreadId(a)
    \/ \E s \in Scopes : Await(s)
    \/ \E s \in Scopes : Return(s)
    \/ Deliver
    \/ EnableInteractiveMode
    \/ DisableInteractiveMode
    \/ ResetTraceContext

SpecThreads == InitThreads /\ [][NextThreads]_vars

(***************************************************************************)
(* Wrapped functions: callables made by wrapFunction from named and        *)
(* unnamed functions, called from code outside every scope, nested up to   *)
(* MaxDepth, over an open link.                                            *)
(***************************************************************************)
Funcs == [name : {"", "a"}, outcome : {"returns", "throws", "resolves", "rejects"}, value : {"r1", "r2"}]

WrapNames == {"a"}

InitWrap ==
    /\ Constructed(TraceGiven)
    /\ asyncLocal = TRUE
    /\ LinkIs(LinkOpen)

NextWrap ==
    \/ \E n \in WrapNames, f \in Funcs, args \in ArgLists :
          Len(wire) < MaxInFlight /\ ExecCall(0, wrapFunction(n, f), args, FALSE)
    \/ \E k \in 1..MaxDepth : Len(wire) < MaxInFlight /\ ExecReturn(0, k, FALSE)
    \/ Deliver

SpecWrap == InitWrap /\ [][NextWrap]_vars

(***************************************************************************)
(* Claims.                                                                 *)
(***************************************************************************)
CtxAt(where) ==
    IF where = -1 THEN persistentContext
    ELSE IF where = 0 THEN currentContext
    ELSE IF where \in Scopes THEN scopeCtx[where] ELSE None

LiveContexts == {c \in ({persistentContext, currentContext} \cup {scopeCtx[s] : s \in Scopes}) : c # None}

FramesOf(q) == {q[i] : i \in 1..Len(q)}

\* C1: after a sequence of properly nested and paired traceEntry/traceExit calls
\* made one after the other on one context, the context's nestingLevel is the
\* one it had before the first call and its functionStack has the length it had.
C1_PairedCallsRestore ==
    (run.where # -2 /\ run.ok /\ run.opened = <<>>) =>
        /\ CtxAt(run.where) # None
        /\ CtxAt(run.where)[1].nestingLevel = run.nl0
        /\ Len(stacks[CtxAt(run.where)[1].functionStack]) = run.len0

\* a paired sequence that started one frame deep has completed
C1_Witness ==
    /\ run.where # -2 /\ run.ok /\ run.opened = <<>>
    /\ run.nl0 = 1 /\ run.len0 = 1

\* C2: in a sequence of properly nested calls on one context, an entry event is
\* emitted at the depth of the frames then open (1 and 2 for a then b from
\* depth 0), the exit event matching it is emitted with the same nestingLevel,
\* and a plain log emitted while that frame is the innermost open one carries
\* that nestingLevel plus one.
C2_ExitAtEntryDepth ==
    [][ /\ (run'.ok /\ run'.opened # <<>> /\ (run'.where # run.where \/ Len(run'.opened) > Len(run.opened) \/ ~run.ok)) =>
              /\ Len(wire') = Len(wire) + 1
              /\ Last(wire').type = "trace"
              /\ Last(wire').data.type = "entry"
              /\ Last(wire').data.nestingLevel = run'.nl0 + Len(run'.opened)
              /\ Last(run'.opened).d = Last(wire').data.nestingLevel
        /\ (run.ok /\ run'.ok /\ run'.where = run.where /\ run.opened # <<>>
              /\ run'.opened = Front(run.opened)) =>
              /\ Len(wire') = Len(wire) + 1
              /\ Last(wire').type = "trace"
              /\ Last(wire').data.type = "exit"
              /\ Last(wire').data.functionName = Last(run.opened).name
              /\ Last(wire').data.nestingLevel = Last(run.opened).d
        /\ (run.ok /\ run' = run /\ run.opened # <<>> /\ Len(wire') = Len(wire) + 1) =>
              /\ Last(wire').type = "log"
              /\ Last(wire').data.nestingLevel = Last(run.opened).d + 1
      ]_vars

\* a is open at depth 1 from depth 0 and the exit of the nested b was just emitted at depth 2
C2_Witness ==
    /\ run.ok /\ run.nl0 = 0
    /\ run.opened = <<[name |-> "a", d |-> 1]>>
    /\ wire # <<>>
    /\ Last(wire).type = "trace"
    /\ Last(wire).data.type = "exit"
    /\ Last(wire).data.functionName = "b"
    /\ Last(wire).data.nestingLevel = 2

\* C3: the nestingLevel of every context and of every emitted event is >= 0,
\* whatever traceEntry, traceExit, log, resetTraceContext and mode-switch calls
\* were made, traceExit calls with no open frame included.
C3_NestingNeverNegative ==
    /\ \A c \in LiveContexts : c[1].nestingLevel >= 0
    /\ \A f \in FramesOf(wire) \cup FramesOf(messageQueue) : f.data.nestingLevel >= 0

\* a traceExit with no open frame emitted its exit event at depth 0 and left the context at 0
C3_Witness ==
    /\ wire # <<>>
    /\ Last(wire).type = "trace"
    /\ Last(wire).data.type = "exit"
    /\ Last(wire).data.nestingLevel = 0
    /\ \E c \in LiveContexts : c[1].nestingLevel = 0 /\ stacks[c[1].functionStack] = <<>>

\* the latest event of scope s still on the link (0: none)
LastFrameOf(s) ==
    LET at == {i \in 1..Len(wire) : wire[i].type = "trace" /\ wire[i].data.functionName = FrameName[s]}
    IN  IF at = {} THEN 0 ELSE CHOOSE i \in at : \A j \in at : j <= i

EventsAsIfAlone ==
    \A s \in Scopes :
        LastFrameOf(s) # 0 =>
            /\ wire[LastFrameOf(s)].data.nestingLevel = solo[s].last
            /\ wire[LastFrameOf(s)].data.nestingLevel >= 0

\* C4 (as claimed): two tasks, each inside its own runInContext scope, trace
\* the entry and exit of their own frame; in every interleaving each event
\* carries the nestingLevel it would carry had the task run alone, none negative.
C4_Original == EventsAsIfAlone

\* C4 (amended): the same, where createContext() provides a task-local
\* variable (AsyncLocalStorage or AsyncContext); with the stack-based
\* FallbackContextVariable the continuations of all tasks share the current context.
C4_IsolatedWhenTaskLocal == asyncLocal => EventsAsIfAlone

\* task-local: scope 1 has its frame open across an await while scope 2, also
\* past an await, has entered and just left its own frame at its own depth
C4_Witness ==
    /\ asyncLocal
    /\ phase[1] = "async" /\ phase[2] = "async"
    /\ scopeCtx[1][1].nestingLevel = solo[1].base + 1
    /\ scopeCtx[2][1].nestingLevel = solo[2].base
    /\ wire # <<>>
    /\ Last(wire).type = "trace"
    /\ Last(wire).data.type = "exit"
    /\ Last(wire).data.functionName = FrameName[2]
    /\ Last(wire).data.nestingLevel = solo[2].base + 1

ObservedStack(c) == stacks[c[1].functionStack]

\* C5: the contexts of two running runInContext scopes are independent: a
\* traceEntry or traceExit in one scope changes neither the nestingLevel nor
\* the functionStack observed in the other scope or in the enclosing (current)
\* context, and its traceExit pops the frame its own latest traceEntry pushed.
C5_ScopesIndependent ==
    [][ \A s \in Scopes :
          (asyncLocal /\ scopeCtx[s] # None /\ scopeCtx'[s] # None /\ scopeCtx'[s] # scopeCtx[s]) =>
              /\ \A t \in Scopes \ {s} :
                    (scopeCtx[t] # None /\ scopeCtx'[t] # None) =>
                        /\ scopeCtx'[t][1].nestingLevel = scopeCtx[t][1].nestingLevel
                        /\ ObservedStack(scopeCtx[t])' = ObservedStack(scopeCtx[t])
              /\ (currentContext # None /\ currentContext' # None) =>
                        /\ currentContext'[1].nestingLevel = currentContext[1].nestingLevel
                        /\ ObservedStack(currentContext)' = ObservedStack(currentContext)
              /\ (scopeCtx'[s][1].nestingLevel < scopeCtx[s][1].nestingLevel
                    /\ solo[s].own > solo[s].base) =>
                        /\ ObservedStack(scopeCtx[s]) # <<>>
                        /\ Last(ObservedStack(scopeCtx[s])).functionName = FrameName[s]
      ]_vars

\* C6: with tracing enabled and the depth limit not reached, a trace event with
\* message m is handed to the link iff some include pattern matches m when the
\* include set I is non-empty (whatever the exclude set E holds), and iff no
\* exclude pattern matches m when I is empty.
C6_IncludeWins ==
    [][ (lastTrace' # lastTrace /\ lastTrace' # None /\ lastTrace'[1].enabled
          /\ (lastTrace'[1].maxTraceLevel = -1
                \/ lastTrace'[1].ctx.nestingLevel <= lastTrace'[1].maxTraceLevel)) =>
            LET m == lastTrace'[1].message
                I == lastTrace'[1].ctx.filters.regexInclude
                E == lastTrace'[1].ctx.filters.regexExclude
                delivered == IF Len(wire') # Len(wire) + 1 THEN FALSE
                             ELSE /\ wire' = Append(wire, Last(wire'))
                                  /\ Last(wire').type = "trace"
                                  /\ Last(wire').id = lastTrace'[1].id
                                  /\ Last(wire').data.message = m
            IN  delivered <=> IF I # {} THEN \E p \in I : RegexTest(p, m)
                                        ELSE \A p \in E : ~RegexTest(p, m)
      ]_vars

\* includes = {important}, excludes = {message}: "important message" is delivered
C6_Witness ==
    /\ lastTrace # None
    /\ lastTrace[1].message = <<"important", "message">>
    /\ lastTrace[1].ctx.filters.regexInclude = {"important"}
    /\ lastTrace[1].ctx.filters.regexExclude = {"message"}
    /\ wire # <<>>
    /\ Last(wire).type = "trace"
    /\ Last(wire).id = lastTrace[1].id
    /\ Last(wire).data.message = <<"important", "message">>

PendingTimers == {t \in TimerIds : timers[t] > 0}

\* C7: with no successful open in between, the k-th consecutive reconnect
\* (k = 0 .. maxRetries-1) is scheduled with delay min(1000 * 2^k, 30000) ms:
\* 1000, 2000, 4000, ... and 30000 from the sixth on.
C7_BackoffDelays ==
    /\ Len(scheduled) <= config.maxRetries
    /\ \A i \in 1..Len(scheduled) :
          scheduled[i] = IF 1000 * (2 ^ (i - 1)) < 30000 THEN 1000 * (2 ^ (i - 1)) ELSE 30000
    /\ \A t \in PendingTimers : \E k \in 0..(config.maxRetries - 1) :
          timers[t] = IF 1000 * (2 ^ k) < 30000 THEN 1000 * (2 ^ k) ELSE 30000

\* six failures in a row: the third reconnect waits 4000 ms, the sixth is capped
C7_Witness ==
    /\ Len(scheduled) = 6
    /\ scheduled[1] = 1000 /\ scheduled[2] = 2000 /\ scheduled[3] = 4000
    /\ scheduled[6] = 30000
    /\ \E t \in PendingTimers : timers[t] = 30000

\* C8: once maxRetries consecutive failures were followed by one more, the
\* client has emitted maxRetriesReached, no reconnect is pending and the client
\* stays so (until the user calls connect() again); an open resets the attempt
\* counter to 0.
C8_GiveUpIsTerminal ==
    /\ gaveUp => /\ PendingTimers = {}
                 /\ reconnectAttempts = config.maxRetries
    /\ ("maxRetriesReached" \in {signals[i] : i \in DOMAIN signals}) => Len(scheduled) = config.maxRetries
    /\ (signals # <<>> /\ signals[1] = "connected") => reconnectAttempts = 0

\* C9: frames go out on the link in the order they were offered (the ids of
\* the frames that carry one count the offers), and once the link is open and
\* the drain is over nothing offered earlier waits in the queue, including when
\* a send call throws.
C9_FifoTransmission ==
    /\ \A i, j \in DOMAIN wire :
          (i < j /\ "id" \in DOMAIN wire[i] /\ "id" \in DOMAIN wire[j]) => wire[i].id < wire[j].id
    /\ (Idle /\ ws # 0 /\ getWebSocketState = 1) => messageQueue = <<>>

\* C10: after close() (and until the user calls connect() again) no reconnect
\* timer is pending and no socket is created, also after the close event of
\* the socket that close() closed.
C10_CloseIsTerminal ==
    [][ closed' => /\ \A t \in TimerIds : timers'[t] = 0
                   /\ closed => \A s \in SockIds : sockets[s] = -1 => sockets'[s] = -1
      ]_vars

\* a log or trace event is offered to sendMessage
OffersEvent ==
    \/ Log(0, "info", <<"important", "message">>, FALSE)
    \/ TraceEntry(0, "a", FALSE)
    \/ TraceExit(0, "a", FALSE)

\* no socket object exists and no reconnect is pending
NoLink == ws = 0 /\ (\A s \in SockIds : sockets[s] = -1) /\ PendingTimers = {}

\* C11 as stated: in serverless mode no link is ever opened (no socket and no
\* reconnect timer exists), isConnected() is false, the message queue is empty
\* and nothing is on the link, and every offered log or trace frame appends one
\* line to the log file when the file sink is on.
C11_Original ==
    /\ [](config.serverless => NoLink /\ ~isConnected /\ messageQueue = <<>> /\ wire = <<>>)
    /\ [][ (config.serverless /\ config.logToFile /\ nextId' # nextId /\ OffersEvent) =>
              /\ Len(fileLog') = Len(fileLog) + 1
              /\ SubSeq(fileLog', 1, Len(fileLog)) = fileLog ]_vars

\* C11: a producer constructed serverless starts with no link, an empty queue
\* and nothing sent; in serverless mode, while no link exists only a call of
\* connect() creates one, isConnected() is false, no step adds a frame to the
\* queue or hands one to the link whatever frame is offered (event, subscribe,
\* unsubscribe or ping), and every offered log or trace frame appends one line
\* to the log file when the file sink is on and none when it is off.
C11_ServerlessFeedsSinksOnly ==
    /\ config.serverless /\ NoLink /\ messageQueue = <<>> /\ wire = <<>>
    /\ [](config.serverless => ~isConnected)
    /\ [][ config.serverless =>
              /\ (NoLink /\ ~NoLink') => \E throws \in BOOLEAN : Connect(throws)
              /\ Len(messageQueue') <= Len(messageQueue)
              /\ Len(wire') <= Len(wire)
              /\ (nextId' # nextId /\ OffersEvent) =>
                     /\ messageQueue' = messageQueue
                     /\ IF config.logToFile
                        THEN /\ Len(fileLog') = Len(fileLog) + 1
                             /\ SubSeq(fileLog', 1, Len(fileLog)) = fileLog
                        ELSE fileLog' = fileLog ]_vars

\* serverless from construction: the user has called connect() and the socket has
\* opened, two events were offered with the file sink on, the entry of a and a
\* log inside frame a; nothing is queued or sent
C11_Witness ==
    /\ config.serverless /\ config.logToFile
    /\ ws # 0 /\ getWebSocketState = 1
    /\ Offered = 2
    /\ Len(fileLog) = 2
    /\ fileLog[2] = <<"|", "|", " ", "important", "message">>
    /\ messageQueue = <<>> /\ wire = <<>>

\* the event the broker has just handled (a log or trace frame that parsed)
Dispatched == inbound # None /\ inbound[1].frame # None /\ inbound[1].frame[1].type \in {"log", "trace"}

\* the links the last handler called ws.send for with the broadcast of the event
Broadcasted ==
    {effects[i].to : i \in {j \in DOMAIN effects : effects[j].kind = "send"
                                                      /\ effects[j].message.type \in {"log", "trace"}}}

\* a subscriber's filters accept the event: levels, sources, include and exclude
\* patterns all pass; a pattern that does not compile matches nothing
Accepts(filters, data) ==
    filters = None \/
    LET f == filters[1]
        hit(p) == ~Uncompilable(p) /\ \E i \in DOMAIN data.message : data.message[i] = p
    IN  /\ f.levels = <<>> \/ \E i \in DOMAIN f.levels : f.levels[i] = data.level
        /\ f.sources = <<>> \/ (data.source # "" /\ \E i \in DOMAIN f.sources : f.sources[i] = data.source)
        /\ f.regexInclude = <<>> \/ \E i \in DOMAIN f.regexInclude : hit(f.regexInclude[i])
        /\ \A i \in DOMAIN f.regexExclude : ~hit(f.regexExclude[i])

Qualifying(route, data) ==
    {l \in Links : /\ \E i \in DOMAIN clients : clients[i] = l
                   /\ conn[l].readyState = 1
                   /\ \E i \in DOMAIN conn[l].subscriptions : conn[l].subscriptions[i] = route
                   /\ Accepts(conn[l].filters, data)}

\* C12: for every event dispatched on a configured route R, the links sent the
\* broadcast are exactly the open links of the active set subscribed to R whose
\* filters (levels, sources, include and exclude patterns, conjunctively) accept it.
C12_BroadcastSetExact ==
    (Dispatched /\ inbound[1].routeConfig # None) =>
        Broadcasted = Qualifying(inbound[1].route[1], inbound[1].frame[1].data)

\* C13: getRouteConfig selects the configured route with the longest prefix of
\* the event's route, and none when no configured route is a prefix of it.
C13_LongestPrefixMatch ==
    Dispatched =>
        LET route == inbound[1].route[1]
            prefixes == {i \in DOMAIN serverRoutes :
                            /\ Len(serverRoutes[i].route) <= Len(route)
                            /\ \A k \in 1..Len(serverRoutes[i].route) : serverRoutes[i].route[k] = route[k]}
        IN  IF prefixes = {} THEN inbound[1].routeConfig = None
            ELSE /\ inbound[1].routeConfig # None
                 /\ \E i \in prefixes :
                       /\ inbound[1].routeConfig[1] = serverRoutes[i]
                       /\ \A j \in prefixes : Len(serverRoutes[j].route) <= Len(serverRoutes[i].route)

\* routes /, /trace, /trace/deep (with two more): /trace/deep/x selects /trace/deep
C13_Witness ==
    /\ Dispatched
    /\ \E i, j, k \in DOMAIN serverRoutes :
          serverRoutes[i].route = RootRoute /\ serverRoutes[j].route = TraceRoute
          /\ serverRoutes[k].route = DeepRoute
    /\ inbound[1].route = Some(DeepRoute \o <<"/", "x">>)
    /\ inbound[1].routeConfig # None
    /\ inbound[1].routeConfig[1].route = DeepRoute


\* no configured route is a prefix of the route of the event just handled
NoRouteMatches ==
    \A i \in DOMAIN serverRoutes :
        ~(/\ Len(serverRoutes[i].route) <= Len(inbound[1].route[1])
          /\ \A k \in 1..Len(serverRoutes[i].route) : serverRoutes[i].route[k] = inbound[1].route[1][k])

ErrorReply(e, l, text) ==
    e.kind = "send" /\ e.to = l /\ e.message = [type |-> "error", error |-> text]

\* the socket of the link whose frame was just handled is open (no handler
\* changes the state of a socket, so it was open when the frame arrived)
SenderOpen == conn[inbound[1].link].readyState = 1

\* C14 as stated: an event whose route matches no configured route is answered
\* with an error to the sender and with nothing else: it is not persisted, not
\* broadcast, and no "ok" status is sent for it.
C14_Original ==
    (Dispatched /\ NoRouteMatches) =>
        /\ effects # <<>>
        /\ \A i \in DOMAIN effects : ErrorReply(effects[i], inbound[1].link, "No route configuration found")

\* C14: an event whose route matches no configured route is answered with an
\* error to the sender when the sender's socket is open, and with nothing else
\* in any case: it is not persisted, not broadcast, and no "ok" status is sent
\* for it.
C14_UnroutedEventRejected ==
    (Dispatched /\ NoRouteMatches) =>
        /\ SenderOpen => effects # <<>>
        /\ \A i \in DOMAIN effects : ErrorReply(effects[i], inbound[1].link, "No route configuration found")

\* an unrouted event from a link while another open link subscribes to a configured route
C14_Witness ==
    /\ Dispatched /\ NoRouteMatches /\ SenderOpen
    /\ \E i \in DOMAIN effects : ErrorReply(effects[i], inbound[1].link, "No route configuration found")
    /\ \E l \in Links : conn[l].readyState = 1 /\ conn[l].subscriptions # <<>>

\* C15 as stated: for log and trace events alike, the broker dispatches on the
\* frame's explicit route when it has one, else on the route of the link's most
\* recent subscribe, else on "/".
C15_Original ==
    Dispatched =>
        LET frame == inbound[1].frame[1]
            client == conn[inbound[1].link]
        IN  inbound[1].route =
                Some(IF frame.route # None THEN frame.route[1]
                     ELSE IF client.route # None THEN client.route[1]
                     ELSE <<"/">>)

\* C15: the broker dispatches an event on the frame's explicit route when it has
\* a non-empty one, else on the route of the link's most recent subscribe, else
\* on "/" for a log frame and on "/trace" for a trace frame.
C15_DispatchRoutePerType ==
    Dispatched =>
        LET frame == inbound[1].frame[1]
            client == conn[inbound[1].link]
        IN  inbound[1].route =
                Some(IF frame.route # None /\ frame.route[1] # <<>> THEN frame.route[1]
                     ELSE IF client.route # None THEN client.route[1]
                     ELSE IF frame.type = "trace" THEN <<"/", "trace">> ELSE <<"/">>)

\* a trace frame without a route from a link that never subscribed goes to /trace
C15_Witness ==
    /\ Dispatched
    /\ inbound[1].frame[1].type = "trace" /\ inbound[1].frame[1].route = None
    /\ conn[inbound[1].link].route = None
    /\ inbound[1].route = Some(<<"/", "trace">>)
    /\ \E i \in DOMAIN effects : effects[i].kind = "persist"

\* C16: an event whose route matches a configured route, sent by a link whose
\* socket is open, gets exactly one status "ok" carrying the frame's id, sent to
\* its sender after the event has been persisted and after the broadcast.
C16_AckAfterPersistAndBroadcast ==
    (Dispatched /\ ~NoRouteMatches /\ SenderOpen) =>
        LET ok == [type |-> "status", status |-> "ok", id |-> inbound[1].frame[1].id]
            acks == {i \in DOMAIN effects : effects[i].kind = "send" /\ effects[i].message = ok}
        IN  /\ acks = {Len(effects)}
            /\ effects[Len(effects)].to = inbound[1].link
            /\ \E i \in 1..(Len(effects) - 1) : effects[i].kind = "persist"

\* the broadcast sends of the last handler for which ws.send threw
FailedBroadcasts ==
    {i \in DOMAIN effects : /\ effects[i].kind = "send"
                            /\ effects[i].message.type \in {"log", "trace"}
                            /\ effects[i].threw}

\* C17: when sending a broadcast to one link fails, that link is removed from
\* the active set and the broadcast is still sent to the other qualifying links.
C17_FailedLinkRemoved ==
    (Dispatched /\ FailedBroadcasts # {}) =>
        /\ \A i \in FailedBroadcasts : \A k \in DOMAIN clients : clients[k] # effects[i].to
        /\ Qualifying(inbound[1].route[1], inbound[1].frame[1].data) \subseteq Broadcasted

\* the qualifying links of the event just handled that hold a pattern that does not compile
HoldsUncompilable(l) ==
    /\ conn[l].filters # None
    /\ \/ \E i \in DOMAIN conn[l].filters[1].regexInclude : Uncompilable(conn[l].filters[1].regexInclude[i])
       \/ \E i \in DOMAIN conn[l].filters[1].regexExclude : Uncompilable(conn[l].filters[1].regexExclude[i])

\* C18: a filter pattern that does not compile is treated as matching nothing
\* (an include pattern never admits, an exclude pattern never withholds), and
\* evaluating it raises no error.
C18_UncompilablePatternMatchesNothing ==
    (Dispatched /\ ~NoRouteMatches) =>
        /\ \A l \in Qualifying(inbound[1].route[1], inbound[1].frame[1].data) :
               HoldsUncompilable(l) => l \in Broadcasted
        /\ \A i \in DOMAIN effects : effects[i].kind = "send" => effects[i].message.type # "error"

\* C19 as stated: a frame that does not parse is answered with an error to its
\* sender and changes nothing (no persistence, no broadcast, counters,
\* subscriptions and active set as before); a frame of unknown type is answered
\* with the error "Unknown message type" and the link stays open and in the
\* active set.
C19_Original ==
    [][ (inbound = None /\ inbound' # None) =>
          LET l == inbound'[1].link
          IN  /\ inbound'[1].frame = None =>
                    /\ Len(effects') = 1
                    /\ effects'[1].kind = "send" /\ effects'[1].to = l
                    /\ effects'[1].message.type = "error"
                    /\ UNCHANGED <<clients, conn, totalMessages, serverRoutes>>
              /\ (inbound'[1].frame # None /\ inbound'[1].frame[1].type = "bogus") =>
                    /\ Len(effects') = 1
                    /\ ErrorReply(effects'[1], l, "Unknown message type")
                    /\ conn'[l].readyState = 1
                    /\ conn'[l].subscriptions = conn[l].subscriptions
                    /\ UNCHANGED clients ]_vars

\* C19: a frame that does not parse is answered with an error to its sender
\* when the sender's socket is open (with nothing when it is not) and changes
\* nothing (no persistence, no broadcast, counters, subscriptions and active
\* set as before); a frame of unknown type is answered with the error "Unknown
\* message type" under the same condition, and the state of the link's socket,
\* its subscriptions and the active set stay as they were.
C19_BadFramesAnsweredAndDropped ==
    [][ (inbound = None /\ inbound' # None) =>
          LET l == inbound'[1].link
          IN  /\ inbound'[1].frame = None =>
                    /\ IF conn[l].readyState = 1
                       THEN /\ Len(effects') = 1
                            /\ effects'[1].kind = "send" /\ effects'[1].to = l
                            /\ effects'[1].message.type = "error"
                       ELSE effects' = <<>>
                    /\ UNCHANGED <<clients, conn, totalMessages, serverRoutes>>
              /\ (inbound'[1].frame # None /\ inbound'[1].frame[1].type = "bogus") =>
                    /\ IF conn[l].readyState = 1
                       THEN /\ Len(effects') = 1
                            /\ ErrorReply(effects'[1], l, "Unknown message type")
                       ELSE effects' = <<>>
                    /\ conn'[l].readyState = conn[l].readyState
                    /\ conn'[l].subscriptions = conn[l].subscriptions
                    /\ UNCHANGED clients ]_vars

\* an unparseable frame from a subscribed link of the active set, after other frames were counted
C19_Witness ==
    /\ inbound # None /\ inbound[1].frame = None
    /\ totalMessages > 0
    /\ conn[inbound[1].link].subscriptions # <<>>
    /\ conn[inbound[1].link].readyState = 1
    /\ \E k \in DOMAIN clients : clients[k] = inbound[1].link
    /\ Len(effects) = 1 /\ ErrorReply(effects[1], inbound[1].link, "Invalid message format")


\* C20: the callable returned by wrapFunction(name, fn) emits its entry and its
\* exit trace event with functionName = name, whatever fn.name is, and returns
\* fn's result.
C20_WrapUsesGivenName ==
    [][ IF Len(wire') # Len(wire) + 1 THEN TRUE
        ELSE LET frame == wire'[Len(wire')]
             IN  /\ Len(calls') = Len(calls) + 1 =>
                        /\ frame.data.type = "entry"
                        /\ frame.data.functionName = calls'[Len(calls')].functionName
                 /\ Len(calls') = Len(calls) - 1 =>
                        /\ frame.data.type = "exit"
                        /\ returned' # None
                        /\ frame.data.functionName = returned'[1].of.functionName
                        /\ returned'[1].of.func.outcome = "returns" =>
                               /\ returned'[1].kind = "value"
                               /\ returned'[1].value = returned'[1].of.func.value ]_vars


\* C21: every call of exec emits one entry event, and its completion one exit
\* event, both for the function called; after a return or a resolved promise
\* the exit carries the value and exec gives it back, after a throw or a
\* rejected promise the exit carries the error and exec gives the same error.
C21_ExecPairsEntryWithExit ==
    [][ /\ Len(calls') = Len(calls) + 1 =>
              /\ nextId' = nextId + 1 /\ Len(wire') = Len(wire) + 1
              /\ wire'[Len(wire')].data.type = "entry"
              /\ wire'[Len(wire')].data.functionName = execName(calls'[Len(calls')].func)
        /\ Len(calls') = Len(calls) - 1 =>
              /\ nextId' = nextId + 1 /\ Len(wire') = Len(wire) + 1
              /\ returned' # None
              /\ LET frame == wire'[Len(wire')]
                     func == returned'[1].of.func
                 IN  /\ frame.data.type = "exit"
                     /\ frame.data.functionName = execName(func)
                     /\ \E k \in DOMAIN calls :
                           /\ calls[k] = returned'[1].of
                           /\ calls' = SubSeq(calls, 1, k - 1) \o SubSeq(calls, k + 1, Len(calls))
                     /\ IF func.outcome \in {"returns", "resolves"}
                        THEN /\ frame.data.returnValue = func.value /\ frame.data.error = ""
                             /\ returned'[1].kind = "value" /\ returned'[1].value = func.value
                        ELSE /\ frame.data.error = func.value /\ frame.data.returnValue = ""
                             /\ returned'[1].kind = "error" /\ returned'[1].value = func.value ]_vars

\* the promise of the later call has rejected while the promise of the earlier call is pending
C21_Witness ==
    /\ returned # None /\ returned[1].of.func.outcome = "rejects" /\ returned[1].kind = "error"
    /\ Len(calls) = 1
    /\ Len(wire) = 1 /\ wire[1].data.type = "exit"
    /\ wire[1].data.error = returned[1].of.func.value
    /\ wire[1].data.functionName = execName(returned[1].of.func)


\* C22: the thread id counter never decreases; in interactive mode every event
\* emitted between two resets carries the same threadId; in scoped mode two
\* distinct top-level runInContext scopes have different threadIds.
C22_ThreadIdsPerScope ==
    [][ /\ threadIdCounter' >= threadIdCounter
        /\ (isInteractiveMode /\ persistentContext # None /\ persistentContext' # None) =>
               /\ persistentContext'[1].threadId = persistentContext[1].threadId
               /\ Len(wire') = Len(wire) + 1 =>
                      wire'[Len(wire')].data.threadId = persistentContext[1].threadId
        /\ \A s1, s2 \in Scopes :
               (s1 # s2 /\ scopeCtx'[s1] # None /\ scopeCtx'[s2] # None) =>
                   scopeCtx'[s1][1].threadId # scopeCtx'[s2][1].threadId ]_vars


\* what getTraceInfo() reports of the nesting: level 0 and no names when it returns null
InfoLevel(info) == IF info = None THEN 0 ELSE info[1].nestingLevel

InfoNames(info) == IF info = None THEN <<>> ELSE info[1].functionStack

\* in interactive mode a traceEntry adds one level and its name to what getTraceInfo() reported
InteractiveAccumulates ==
    \A n \in Names :
        (isInteractiveMode /\ TraceEntry(0, n, FALSE)) =>
            /\ getTraceInfo(0)' # None
            /\ InfoLevel(getTraceInfo(0)') = InfoLevel(getTraceInfo(0)) + 1
            /\ InfoNames(getTraceInfo(0)') = Append(InfoNames(getTraceInfo(0)), n)

\* C23 as stated: in interactive mode nesting accumulates across calls; after
\* disableInteractiveMode(), and after resetTraceContext() in interactive mode,
\* getTraceInfo() returns null, whatever was done before.
C23_Original ==
    [][ /\ InteractiveAccumulates
        /\ DisableInteractiveMode => getTraceInfo(0)' = None
        /\ (isInteractiveMode /\ ResetTraceContext) => getTraceInfo(0)' = None ]_vars

\* C23: in interactive mode nesting accumulates across calls; after
\* resetTraceContext() in interactive mode getTraceInfo() returns null; after
\* disableInteractiveMode() it returns null when no scoped context is in
\* effect (no current context left by an operation made outside interactive
\* mode, no enclosing runInContext scope).
C23_InteractiveContextPersists ==
    [][ /\ InteractiveAccumulates
        /\ (DisableInteractiveMode /\ currentContext = None /\ contextGet(0) = 0) =>
               getTraceInfo(0)' = None
        /\ (isInteractiveMode /\ ResetTraceContext) => getTraceInfo(0)' = None ]_vars

\* two traceEntry calls in interactive mode: nestingLevel 2, both names on the stack
C23_Witness ==
    /\ isInteractiveMode
    /\ getTraceInfo(0) # None
    /\ getTraceInfo(0)[1].nestingLevel = 2
    /\ getTraceInfo(0)[1].functionStack = <<"a", "b">>


\* C24: in scoped mode getTraceInfo() returns a record with nestingLevel 0 and an
\* empty functionStack (never null) on a client that has performed no trace
\* operation, and again after resetTraceContext() following traceEntry calls.
C24_ScopedInfoAfterReset ==
    [][ (/\ ~isInteractiveMode'
         /\ \/ threadIdCounter' = 1
            \/ ~isInteractiveMode /\ ResetTraceContext) =>
            /\ getTraceInfo(0)' # None
            /\ getTraceInfo(0)'[1].nestingLevel = 0
            /\ getTraceInfo(0)'[1].functionStack = <<>> ]_vars


\* C25: a link is sent broadcasts for route R only while R is in its subscription
\* set and the link is open and active; R enters the set only by the link's
\* subscribe for R and leaves it by its unsubscribe for R; a close or error event
\* takes the link out of the broker's active set, which only a new connection enters.
C25_SubscriptionLifetime ==
    [][ /\ (Dispatched' /\ inbound'[1].routeConfig # None) =>
               \A l \in Broadcasted' :
                   /\ \E i \in DOMAIN conn'[l].subscriptions :
                          conn'[l].subscriptions[i] = inbound'[1].route[1]
                   /\ \E k \in DOMAIN clients' : clients'[k] = l
                   /\ conn'[l].readyState = 1
        /\ \A l \in Links :
              /\ \A i \in DOMAIN conn'[l].subscriptions :
                     (\A j \in DOMAIN conn[l].subscriptions :
                          conn[l].subscriptions[j] # conn'[l].subscriptions[i]) =>
                         /\ inbound' # None /\ inbound'[1].link = l /\ inbound'[1].frame # None
                         /\ inbound'[1].frame[1].type = "subscribe"
                         /\ conn'[l].subscriptions[i] =
                                (IF inbound'[1].frame[1].route = None THEN <<"/">>
                                 ELSE inbound'[1].frame[1].route[1])
              /\ (/\ inbound = None /\ inbound' # None /\ inbound'[1].link = l
                  /\ inbound'[1].frame # None /\ inbound'[1].frame[1].type = "unsubscribe") =>
                     \A i \in DOMAIN conn'[l].subscriptions :
                         conn'[l].subscriptions[i] #
                             (IF inbound'[1].frame[1].route = None THEN <<"/">>
                              ELSE inbound'[1].frame[1].route[1])
              /\ (LinkClose(l) \/ LinkError(l)) => \A k \in DOMAIN clients' : clients'[k] # l
              /\ ((\E k \in DOMAIN clients' : clients'[k] = l) /\ \A k \in DOMAIN clients : clients[k] # l) =>
                     Connection(l) /\ conn'[l].subscriptions = <<>> ]_vars

\* a link that subscribed to /trace and to / has unsubscribed from /trace and stays subscribed to /
C25_Witness ==
    /\ inbound # None /\ inbound[1].frame # None
    /\ inbound[1].frame[1].type = "unsubscribe" /\ inbound[1].frame[1].route = Some(<<"/", "trace">>)
    /\ conn[inbound[1].link].route = Some(<<"/", "trace">>)
    /\ conn[inbound[1].link].subscriptions = << <<"/">> >>
    /\ conn[inbound[1].link].readyState = 1


\* C26: traceExit(name) called while the top frame has another name still pops
\* exactly one frame, emits the exit event for name at the current nestingLevel,
\* and decrements nestingLevel, saturating at 0.
C26_MismatchedExitStillExits ==
    [][ \A n \in Names :
          (/\ TraceExit(0, n, FALSE)
           /\ InfoNames(getTraceInfo(0)) # <<>>
           /\ InfoNames(getTraceInfo(0))[Len(InfoNames(getTraceInfo(0)))] # n) =>
              /\ InfoNames(getTraceInfo(0)') = SubSeq(InfoNames(getTraceInfo(0)), 1,
                                                      Len(InfoNames(getTraceInfo(0))) - 1)
              /\ Len(wire') = Len(wire) + 1
              /\ wire'[Len(wire')].data.type = "exit"
              /\ wire'[Len(wire')].data.functionName = n
              /\ wire'[Len(wire')].data.nestingLevel = InfoLevel(getTraceInfo(0))
              /\ InfoLevel(getTraceInfo(0)') =
                     (IF InfoLevel(getTraceInfo(0)) > 0 THEN InfoLevel(getTraceInfo(0)) - 1 ELSE 0) ]_vars

\* after traceEntry a, traceEntry b, the call traceExit a: b's frame was popped,
\* the exit event of a carries depth 2, the context is back at depth 1
C26_Witness ==
    /\ ~run.ok /\ Len(run.opened) = 2 /\ run.opened[1].name = "a" /\ run.opened[2].name = "b"
    /\ InfoNames(getTraceInfo(0)) = <<"a">>
    /\ InfoLevel(getTraceInfo(0)) = 1
    /\ Len(wire) = 1 /\ wire[1].data.type = "exit"
    /\ wire[1].data.functionName = "a" /\ wire[1].data.nestingLevel = 2


\* C27: with tracing enabled and no pattern rejecting the message, a trace event
\* offered at nestingLevel n under the configured maxTraceLevel L is dropped
\* exactly when L >= 0 and n > L (L = 0: level 0 passes; L = -1: nothing is
\* dropped), whether L came from the constructor or from updateConfig.
C27_DepthLimit ==
    [][ (lastTrace' # lastTrace /\ lastTrace' # None /\ lastTrace'[1].enabled
          /\ IF lastTrace'[1].ctx.filters.regexInclude # {}
             THEN \E p \in lastTrace'[1].ctx.filters.regexInclude :
                      RegexTest(p, lastTrace'[1].message)
             ELSE \A p \in lastTrace'[1].ctx.filters.regexExclude :
                      ~RegexTest(p, lastTrace'[1].message)) =>
            LET L == lastTrace'[1].maxTraceLevel
                n == lastTrace'[1].ctx.nestingLevel
                delivered == IF Len(wire') # Len(wire) + 1 THEN FALSE
                             ELSE /\ Last(wire').type = "trace"
                                  /\ Last(wire').id = lastTrace'[1].id
            IN  ~delivered <=> (L >= 0 /\ n > L)
      ]_vars


\* C28: a log() event whose message matches an exclude pattern of its context,
\* with no include pattern configured, is dropped: it is not handed to the
\* link, not queued and not written to the local sink.
C28_ExcludedLogIsDropped ==
    [][ (/\ Log(0, "info", <<"skip", "message">>, FALSE)
         /\ getOrCreateContext(0).ctx.filters.regexInclude = {}
         /\ \E p \in getOrCreateContext(0).ctx.filters.regexExclude :
                RegexTest(p, <<"skip", "message">>)) =>
            (wire' = wire /\ messageQueue' = messageQueue /\ fileLog' = fileLog)
      ]_vars


\* C29: with enableTracing false, traceEntry emits nothing and leaves the
\* nestingLevel and the functionStack of its context as they were.
C29_DisabledEntryLeavesContext ==
    [][ (~config.enableTracing /\ TraceEntry(0, "a", FALSE)) =>
            /\ wire' = wire /\ messageQueue' = messageQueue /\ fileLog' = fileLog
            /\ InfoLevel(getTraceInfo(0)') = InfoLevel(getTraceInfo(0))
            /\ InfoNames(getTraceInfo(0)') = InfoNames(getTraceInfo(0))
      ]_vars


\* the trace events of the given kind among the first k frames sent for context threadId
Emitted(kind, threadId, k) ==
    Cardinality({i \in 1..k : /\ wire[i].type = "trace"
                              /\ wire[i].data.type = kind
                              /\ wire[i].data.threadId = threadId})

\* C30: at every point of the emission stream of one context the exit events
\* emitted so far are at most the entry events emitted so far (a traceExit
\* with no open frame emits no exit event).
C30_ExitsMatchEntries ==
    \A k \in 0..Len(wire) : \A t \in 1..MaxThreadId :
        Emitted("exit", t, k) <= Emitted("entry", t, k)


\* C31: the scope context of runInContext starts from the context its caller
\* resolved, overlaid with the given partial; when the synchronous part of
\* the callback ends (it returns, throws or reaches an await) the caller
\* resolves the context it resolved at the call, also when the caller is an
\* enclosing scope; and the end of a scope past its await changes what no
\* other code resolves.
C31_ScopePushedAndPopped ==
    [][ \A s \in Scopes :
          /\ (phase[s] = "idle" /\ phase'[s] = "sync") =>
                LET e == getOrCreateContext(entered'[s][1].by).ctx
                    p == entered'[s][1].given
                IN  /\ scopeCtx'[s] # None
                    /\ scopeCtx'[s][1].nestingLevel =
                          IF p = <<>> THEN e.nestingLevel ELSE p.nestingLevel
                    /\ scopeCtx'[s][1].threadId = e.threadId
                    /\ scopeCtx'[s][1].functionStack = e.functionStack
                    /\ scopeCtx'[s][1].filters = e.filters
                    /\ getOrCreateContext(s)'.where = s
          /\ (phase[s] = "sync" /\ phase'[s] # "sync") =>
                /\ CanAct(entered[s][1].by)'
                /\ getOrCreateContext(entered[s][1].by)'.where = entered[s][1].outer
                /\ ~getOrCreateContext(entered[s][1].by)'.created
          /\ (phase[s] = "async" /\ phase'[s] = "done") =>
                \A x \in Actors \ {s} : contextGet(x)' = contextGet(x)
      ]_vars

\* without a task-local store, scope 2 was started by scope 1 with a partial,
\* has ended, and scope 1, still running, resolves its own context again
C31_Witness ==
    /\ ~asyncLocal
    /\ phase[1] = "sync" /\ phase[2] = "done"
    /\ entered[2] = Some([by |-> 1, outer |-> 1, given |-> [nestingLevel |-> 1]])
    /\ scopeCtx[1] # None /\ scopeCtx[1][1].nestingLevel = 0
    /\ getOrCreateContext(1).where = 1


\* C32: under a route configured with capture full, the record persisted for
\* an event carries the sender's link id, the frame's type, the event
\* unchanged and, as its route, the route the event was dispatched on, also
\* when the sender never subscribed.
C32_FullRecordNamesDispatchRoute ==
    (Dispatched /\ ~NoRouteMatches /\ inbound[1].routeConfig[1].capture = "full") =>
        LET records == {i \in DOMAIN effects : effects[i].kind = "persist"}
        IN  /\ records # {}
            /\ \A i \in records :
                  /\ effects[i].entry.clientId = inbound[1].link
                  /\ effects[i].entry.type = inbound[1].frame[1].type
                  /\ effects[i].entry.data = inbound[1].frame[1].data
                  /\ effects[i].entry.route = inbound[1].route


\* C33: in every context reached by traceEntry, traceExit and runInContext
\* calls, nestingLevel equals the number of frames on its functionStack.
C33_LevelIsStackDepth ==
    \A c \in LiveContexts : c[1].nestingLevel = Len(stacks[c[1].functionStack])


\* C34: with the file sink on, each event offered to the producer is written to
\* the log file exactly once, whatever the link does when it is offered and
\* since: the step that offers it appends its line, and no other step (a
\* drain of the queue, a ping, an open or a close of the link) appends a line.
C34_OneLinePerEvent ==
    [][ /\ (\E throws \in BOOLEAN : Log(0, "info", <<"hi">>, throws)) =>
              fileLog' = Append(fileLog, formatLogMessage(<<"hi">>, 0))
        /\ Len(fileLog') > Len(fileLog) =>
              \E throws \in BOOLEAN : Log(0, "info", <<"hi">>, throws) ]_vars


\* C35: flushMessageQueue terminates: a drain that has started comes to its
\* end, whatever the queue holds and whether or not send calls throw.
C35_FlushTerminates ==
    flushing ~> ~flushing


\* C36: the producer reacts to its current socket only: the close or the
\* opening of a socket that connect() has superseded leaves the reference to
\* the current socket, starts no drain of the queue and schedules no
\* reconnect.
C36_SupersededSocketIgnored ==
    [][ \A s \in SockIds :
          ((SocketClose(s) \/ SocketOpen(s)) /\ ws # 0 /\ s # ws) =>
              /\ ws' = ws
              /\ ~flushing'
              /\ reconnectAttempts' = reconnectAttempts
              /\ timers' = timers
              /\ scheduled' = scheduled
      ]_vars


\* C37: whatever patterns some link supplied, an event dispatched on a
\* configured route is sent to every other open subscribed link whose own
\* filters accept it, and its sender, when its socket is open, gets the
\* status "ok".
C37_ForeignFilterHarmless ==
    (Dispatched /\ ~NoRouteMatches) =>
        /\ \A l \in Qualifying(inbound[1].route[1], inbound[1].frame[1].data) :
               ~HoldsUncompilable(l) => l \in Broadcasted
        /\ SenderOpen =>
               \E i \in DOMAIN effects :
                   /\ effects[i].kind = "send"
                   /\ effects[i].to = inbound[1].link
                   /\ effects[i].message = [type |-> "status", status |-> "ok",
                                            id |-> inbound[1].frame[1].id]


\* C38: filters belong to the subscription they were sent with.  Every
\* subscribe frame for the route "/" comes without filters (the frames with
\* filters are for "/trace"), so an open link subscribed to "/" is sent every
\* event dispatched on "/", whatever filters it supplied for "/trace" before
\* or after; no stored pattern fails to compile.
C38_FiltersPerSubscription ==
    (/\ Dispatched /\ ~NoRouteMatches
     /\ inbound[1].route[1] = RootRoute
     /\ \A l \in Links : ~HoldsUncompilable(l)) =>
        \A l \in Links :
            (/\ \E i \in DOMAIN clients : clients[i] = l
             /\ conn[l].readyState = 1
             /\ InSeq(RootRoute, conn[l].subscriptions)) => l \in Broadcasted


\* C39 as stated: in every reachable state 0 <= reconnectAttempts <= maxRetries
\* and at most one reconnect timer is pending.
C39_Original ==
    /\ reconnectAttempts >= 0
    /\ reconnectAttempts <= config.maxRetries
    /\ Cardinality(PendingTimers) <= 1

\* C39: reconnectAttempts is never negative, no step raises it above the
\* maxRetries configured at that step (so it stays within maxRetries as long
\* as updateConfig does not lower maxRetries below the attempts made), and at
\* most one reconnect timer is pending.
C39_AttemptsBounded ==
    /\ reconnectAttempts \in 0..config.maxRetries
    /\ Cardinality(PendingTimers) <= 1
    /\ [][ /\ reconnectAttempts' >= 0
           /\ reconnectAttempts' > reconnectAttempts => reconnectAttempts' <= config'.maxRetries
           /\ Cardinality(PendingTimers') <= 1
       ]_vars

\* the retries are used up and the producer gave up while the timer of the
\* last scheduled reconnect is still pending
C39_Witness ==
    /\ gaveUp
    /\ reconnectAttempts = config.maxRetries
    /\ PendingTimers = {reconnectTimer}

====
